---- MODULE Spec2Model ----
(***************************************************************************)
(* Library API: the catalog store (users, books, bookshelf entries,        *)
(* reading lists) behind the request handlers of app/main.py, and the      *)
(* Open Library lookup cache (alru_cache(maxsize=64)).                     *)
(*                                                                         *)
(* Strings are sequences of one-character strings, so that str.strip()     *)
(* is computed and not assumed.  Every handler is one action: it reads     *)
(* the request, runs its checks in the order of the code, writes the store *)
(* and leaves the request in req and the HTTP response in resp.            *)
(***************************************************************************)
EXTENDS Integers, Sequences, FiniteSets, TLC

VARIABLES
    users,      \* rows of table users
    books,      \* rows of table books
    shelf,      \* rows of table bookshelves
    lists,      \* rows of table reading_lists
    seq,        \* the autoincrement counter of each table
    txns,       \* the sessions that hold a new row and have not committed
    now,        \* what datetime.now(timezone.utc) returns
    members,    \* rows of reading_list_books: a reading list and a book in it
    req,        \* the request the last handler served
    resp,       \* the response the last handler gave
    cache,      \* resident entries of cached_search_openlibrary, least recently used first
    stats,      \* hits and misses of cached_search_openlibrary
    flight      \* the tasks of search_openlibrary that have not finished

storeVars == <<users, books, shelf, lists, seq, txns, now, members>>
cacheVars == <<cache, stats, flight>>
vars ==
    <<users, books, shelf, lists, seq, txns, now, members, req, resp, cache, stats,
      flight>>

----------------------------------------------------------------------------
(* Bounds of the model *)

\* rows ever inserted into users (ids are never reused)
MaxUsers == 2
\* rows ever inserted into books
MaxBooks == 2
\* rows ever inserted into bookshelves
MaxEntries == 2
\* rows ever inserted into reading_lists
MaxLists == 4
\* lookup keys beyond the capacity of the cache
ExtraKeys == 2
\* cache hits counted between two clears
MaxHits == 1
\* cache misses counted between two clears, beyond the capacity of the cache
ExtraMisses == 2
\* sessions that hold a new row at one time
MaxTxns == 2
\* the readings of the clock after the first
MaxClock == 2
\* tasks of search_openlibrary that run at one time
MaxFlights == 2
\* calls counted between two clears while tasks run
MaxCalls == 3
\* entries resident while the model still looks the hot key up, before the cache
\* is about to be full
WarmUp == 2

----------------------------------------------------------------------------
(* Strings *)

\* Python's None, for Optional[str] parameters
None == <<"None">>

WS == {" "}

RECURSIVE lstrip(_)
lstrip(s) == IF s # <<>> /\ Head(s) \in WS THEN lstrip(Tail(s)) ELSE s

RECURSIVE rstrip(_)
rstrip(s) ==
    IF s # <<>> /\ s[Len(s)] \in WS THEN rstrip(SubSeq(s, 1, Len(s) - 1)) ELSE s

\* str.strip()
strip(s) == rstrip(lstrip(s))

\* `not value`: None or the empty string
Falsy(s) == s = None \/ s = <<>>

\* `not value or value.strip() == ""`
Blank(s) == Falsy(s) \/ strip(s) = <<>>

\* the values the model draws request strings from
ann == <<"a">>
bob == <<"b">>
annPadded == <<" ", "a">>
empty == <<>>
spaces == <<" ", " ">>

annMail == <<"a", "@">>
bobMail == <<"b", "@">>

Usernames == {ann, bob}
Emails == {annMail, bobMail}
Passwords == {<<"p">>}
BlankStrings == {empty, spaces}

dune == <<"D">>
emma == <<"E">>
Titles == {dune, emma}
Isbns == {<<"1">>, <<"2">>}
Authors == {<<"H">>}
Genres == {<<"g">>}
Descriptions == {<<"d">>}

faves == <<"F">>
ListNames == {faves, <<"G">>, <<"H">>, <<"I">>}

----------------------------------------------------------------------------
(* Responses *)

Reply(op, status, detail, body) ==
    [op |-> op, status |-> status, detail |-> detail, body |-> body]

NoBody == <<>>

\* HTTPException(status_code, detail)
HTTPException(op, status, detail) == Reply(op, status, detail, NoBody)

Ok(r) == r.status \in {200, 201}

\* an exception that no handler catches: the framework answers 500 with a fixed
\* text, which says nothing of the exception
Unhandled(op) == Reply(op, 500, "Internal Server Error", NoBody)

----------------------------------------------------------------------------
(* Credentials: app.auth.get_current_user *)

\* the clock of the host moves on between two requests
Tick ==
    /\ now < MaxClock
    /\ now' = now + 1
    /\ req' = [op |-> "datetime.now"]
    /\ resp' = Reply("datetime.now", 200, "", NoBody)
    /\ UNCHANGED <<users, books, shelf, lists, seq, txns, members, cacheVars>>

\* a bearer token is the username it was issued for, or no valid token
BadToken == <<"!">>
Tokens == {ann, BadToken}

\* get_current_user resolves the token to a stored user, or raises 401
get_current_user(token) == \E u \in users : u.username = token

Unauthenticated(op) == HTTPException(op, 401, "Could not validate credentials")

\* app.auth.get_password_hash
get_password_hash(p) == <<"#">> \o p

----------------------------------------------------------------------------
(* Queries *)

UserByUsername(name) == {u \in users : u.username = name}
UserByEmail(mail) == {u \in users : u.email = mail}
UserById(id) == {u \in users : u.id = id}
BookById(id) == {b \in books : b.id = id}

\* Query.first(): some row of the result
First(S) == CHOOSE x \in S : TRUE

Init ==
    /\ users = {}
    /\ books = {}
    /\ shelf = {}
    /\ lists = {}
    /\ seq = [users |-> 0, books |-> 0, shelf |-> 0, lists |-> 0]
    /\ txns = {}
    /\ now = 0
    /\ members = {}
    /\ req = [op |-> "start"]
    /\ resp = Reply("start", 200, "", NoBody)
    /\ cache = <<>>
    /\ stats = [hits |-> 0, misses |-> 0]
    /\ flight = {}

----------------------------------------------------------------------------
(* POST /token *)

\* app.auth.verify_password
verify_password(p, hashed) == hashed = get_password_hash(p)

\* the user of the username, whatever the password
authenticate_any_password(username, password) == UserByUsername(username)

\* app.auth.authenticate_user: the user of the username when the password
\* verifies against the stored hash, and no user otherwise
authenticate_user(username, password) ==
    {u \in UserByUsername(username) : verify_password(password, u.hashed_password)}

\* app.auth.create_access_token(data={"sub": username}): the token that
\* get_current_user resolves to the user of that username
create_access_token(sub) == sub

login(username, password) ==
    /\ req' = [op |-> "login", username |-> username, password |-> password]
    /\ resp' = IF Blank(username)
               THEN HTTPException("login", 400,
                        "Username cannot be empty or whitespace.")
               ELSE IF Blank(password)
               THEN HTTPException("login", 400,
                        "Password cannot be empty or whitespace.")
               ELSE IF authenticate_user(username, password) = {}
               THEN HTTPException("login", 400, "Incorrect username or password")
               ELSE Reply("login", 200, "",
                      [access_token |->
                          create_access_token(
                              First(authenticate_user(username, password)).username),
                       token_type |-> "bearer"])
    /\ UNCHANGED <<storeVars, cacheVars>>

----------------------------------------------------------------------------
(* POST /register *)

ValidUsers == [username : Usernames, email : Emails, password : Passwords]

\* valid candidates, and candidates with one field blank or padded
UserCandidates ==
    ValidUsers
    \cup {[c EXCEPT !.username = b] : c \in ValidUsers, b \in BlankStrings \cup {annPadded}}
    \cup {[c EXCEPT !.email = b] : c \in ValidUsers, b \in BlankStrings}
    \cup {[c EXCEPT !.password = b] : c \in ValidUsers, b \in BlankStrings}

\* the email check forgotten
RegisterConflictNoEmail(username_exists, email_exists) ==
    IF username_exists THEN "Username already exists." ELSE ""

\* the email check made before the username check
RegisterConflictEmailFirst(username_exists, email_exists) ==
    IF email_exists THEN "Email already exists."
    ELSE IF username_exists THEN "Username already exists."
    ELSE ""

\* `if username_exists: raise ...` then `if email_exists: raise ...`
RegisterConflict(username_exists, email_exists) ==
    IF username_exists THEN "Username already exists."
    ELSE IF email_exists THEN "Email already exists."
    ELSE ""

\* the 400 detail register_user raises for c, "" when it raises none
RegisterCheck(c) ==
    IF Blank(c.username) THEN "Username cannot be empty."
    ELSE IF Blank(c.email) THEN "Email cannot be empty."
    ELSE IF Blank(c.password) THEN "Password cannot be empty."
    ELSE RegisterConflict(UserByUsername(c.username) # {}, UserByEmail(c.email) # {})

register_user(c, fault) ==
    /\ req' = [op |-> "register_user", user |-> c]
    /\ IF RegisterCheck(c) # ""
       THEN /\ resp' = HTTPException("register_user", 400, RegisterCheck(c))
            /\ UNCHANGED storeVars
       ELSE IF fault
       THEN /\ resp' = Unhandled("register_user")
            /\ UNCHANGED storeVars
       ELSE /\ seq.users < MaxUsers
            /\ LET db_user == [id |-> seq.users + 1,
                               username |-> c.username,
                               email |-> c.email,
                               hashed_password |-> get_password_hash(c.password),
                               created_at |-> now,
                               updated_at |-> now]
               IN /\ users' = users \cup {db_user}
                  /\ seq' = [seq EXCEPT !.users = @ + 1]
                  /\ resp' = Reply("register_user", 201, "", db_user)
            /\ UNCHANGED <<books, shelf, lists, txns, now, members>>
    /\ UNCHANGED cacheVars

----------------------------------------------------------------------------
(* POST /books, DELETE /books/{id} *)

ValidBooks ==
    [title : Titles, author : Authors, isbn : Isbns, genre : Genres,
     description : Descriptions]

BookFields == <<"title", "author", "isbn", "genre", "description">>

BookCandidates ==
    ValidBooks
    \cup {[c EXCEPT ![BookFields[i]] = b] :
            c \in ValidBooks, i \in 1..Len(BookFields), b \in BlankStrings}

\* f"{field_name.capitalize()} cannot be empty or whitespace."
BlankFieldDetail ==
    [title |-> "Title cannot be empty or whitespace.",
     author |-> "Author cannot be empty or whitespace.",
     isbn |-> "Isbn cannot be empty or whitespace.",
     genre |-> "Genre cannot be empty or whitespace.",
     description |-> "Description cannot be empty or whitespace."]

\* the first field of the loop that is blank, 0 when none is
FirstBlankField(c) ==
    IF \E i \in 1..Len(BookFields) : Blank(c[BookFields[i]])
    THEN CHOOSE i \in 1..Len(BookFields) :
            /\ Blank(c[BookFields[i]])
            /\ \A j \in 1..(i - 1) : ~Blank(c[BookFields[j]])
    ELSE 0

\* the title forgotten in the filter
ExistingBookIsbnOnly(c) == {b \in books : b.isbn = c.isbn}

\* filter((Book.isbn == book.isbn) | (Book.title == book.title))
ExistingBook(c) == {b \in books : b.isbn = c.isbn \/ b.title = c.title}

create_book(token, c, fault) ==
    /\ req' = [op |-> "create_book", token |-> token, book |-> c]
    /\ IF ~get_current_user(token)
       THEN resp' = Unauthenticated("create_book") /\ UNCHANGED storeVars
       ELSE IF FirstBlankField(c) # 0
       THEN /\ resp' = HTTPException("create_book", 400,
                           BlankFieldDetail[BookFields[FirstBlankField(c)]])
            /\ UNCHANGED storeVars
       ELSE IF ExistingBook(c) # {}
       THEN /\ resp' = HTTPException("create_book", 400,
                           "Book with ISBN or title already exists")
            /\ UNCHANGED storeVars
       ELSE IF fault
       THEN /\ resp' = HTTPException("create_book", 500, "Database error")
            /\ UNCHANGED storeVars
       ELSE /\ seq.books < MaxBooks
            /\ LET db_book == [id |-> seq.books + 1, title |-> c.title,
                               author |-> c.author, isbn |-> c.isbn,
                               genre |-> c.genre, description |-> c.description]
               IN /\ books' = books \cup {db_book}
                  /\ seq' = [seq EXCEPT !.books = @ + 1]
                  /\ resp' = Reply("create_book", 200, "", db_book)
            /\ UNCHANGED <<users, shelf, lists, txns, now, members>>
    /\ UNCHANGED cacheVars

\* Book.bookshelf_entries has no delete cascade: the flush sets book_id of the
\* book's entries to NULL, which bookshelves.book_id (nullable=False) refuses
\* the rows of reading_list_books left as they are when a book is deleted
DetachedNothing(b) == members

\* Book.reading_lists has secondary=reading_list_books: the flush deletes the
\* rows of the association table of a deleted book, and it does not fail
Detached(b) == {m \in members : m.book_id # b.id}

BookDeleteFails(b) == \E e \in shelf : e.book_id = b.id

delete_book(token, id, fault) ==
    /\ req' = [op |-> "delete_book", token |-> token, id |-> id]
    /\ IF ~get_current_user(token)
       THEN resp' = Unauthenticated("delete_book") /\ UNCHANGED storeVars
       ELSE IF BookById(id) = {}
       THEN /\ resp' = HTTPException("delete_book", 404, "Book not found.")
            /\ UNCHANGED storeVars
       ELSE LET book_to_delete == First(BookById(id))
            IN IF BookDeleteFails(book_to_delete) \/ fault
               THEN /\ resp' = HTTPException("delete_book", 500, "Database error")
                    /\ UNCHANGED storeVars
               ELSE /\ books' = books \ {book_to_delete}
                    /\ members' = Detached(book_to_delete)
                    /\ resp' = Reply("delete_book", 200, "", book_to_delete)
                    /\ UNCHANGED <<users, shelf, lists, seq, txns, now>>
    /\ UNCHANGED cacheVars

----------------------------------------------------------------------------
(* DELETE /users, PUT /users/{id} *)

\* `if username`: a str that is not None and not empty
Truthy(s) == ~Falsy(s)

find_user_by_username_or_email(username, email) ==
    IF Truthy(username) /\ Truthy(email)
    THEN {u \in users : u.username = username /\ u.email = email}
    ELSE IF Truthy(username) THEN UserByUsername(username)
    ELSE IF Truthy(email) THEN UserByEmail(email)
    ELSE {}

\* User.bookshelf_entries and User.reading_lists have no delete cascade: the
\* flush sets user_id of the user's rows to NULL, which nullable=False refuses
UserDeleteFails(u) ==
    \/ \E e \in shelf : e.user_id = u.id
    \/ \E l \in lists : l.user_id = u.id

UsernameSelectors == Usernames \cup {None, spaces}
EmailSelectors == Emails \cup {None, empty}

\* GET /users/search
get_user(token, username, email) ==
    /\ req' = [op |-> "get_user", token |-> token, username |-> username,
               email |-> email]
    /\ resp' = IF ~get_current_user(token)
               THEN Unauthenticated("get_user")
               ELSE IF Blank(username) /\ Blank(email)
               THEN HTTPException("get_user", 400,
                        "You must provide a non-empty username or email.")
               ELSE IF find_user_by_username_or_email(username, email) = {}
               THEN HTTPException("get_user", 404, "User not found.")
               ELSE Reply("get_user", 200, "",
                          First(find_user_by_username_or_email(username, email)))
    /\ UNCHANGED <<storeVars, cacheVars>>

delete_user(token, username, email, fault) ==
    /\ req' = [op |-> "delete_user", token |-> token, username |-> username,
               email |-> email]
    /\ IF ~get_current_user(token)
       THEN resp' = Unauthenticated("delete_user") /\ UNCHANGED storeVars
       ELSE IF Blank(username) /\ Blank(email)
       THEN /\ resp' = HTTPException("delete_user", 400,
                           "You must provide a non-empty username or email.")
            /\ UNCHANGED storeVars
       ELSE IF find_user_by_username_or_email(username, email) = {}
       THEN /\ resp' = HTTPException("delete_user", 404, "User not found.")
            /\ UNCHANGED storeVars
       ELSE LET user == First(find_user_by_username_or_email(username, email))
            IN IF UserDeleteFails(user) \/ fault
               THEN /\ resp' = HTTPException("delete_user", 500, "Database error")
                    /\ UNCHANGED storeVars
               ELSE /\ users' = users \ {user}
                    /\ resp' = Reply("delete_user", 200, "", user)
                    /\ UNCHANGED <<books, shelf, lists, seq, txns, now, members>>
    /\ UNCHANGED cacheVars

\* the candidates of update_user have passed the validators of UserCreate
UserUpdates == [username : Usernames, email : Emails]

\* the assignments of update_user with the timestamp left as it was
UpdatedKeepsTimestamp(user, c) ==
    [user EXCEPT !.username = c.username, !.email = c.email]

\* user.username = ...; user.email = ...; user.updated_at = datetime.now(...)
Updated(user, c) ==
    [user EXCEPT !.username = c.username, !.email = c.email, !.updated_at = now]

\* the checks of update_user with the email check forgotten
UpdateConflictNoEmail(user, c) ==
    IF c.username # user.username /\ UserByUsername(c.username) # {}
    THEN "Username already exists."
    ELSE ""

\* the 400 detail update_user raises for c, "" when it raises none: each of
\* username and email is looked up only when it differs from the user's own
UpdateConflict(user, c) ==
    IF c.username # user.username /\ UserByUsername(c.username) # {}
    THEN "Username already exists."
    ELSE IF c.email # user.email /\ UserByEmail(c.email) # {}
    THEN "Email already exists."
    ELSE ""

\* the users when update_user raises, had it assigned and committed the
\* username before it checked
RefusedUpdateAssigned(user, c) ==
    (users \ {user}) \cup {[user EXCEPT !.username = c.username]}

\* the users when update_user raises: both checks stand before the first
\* assignment, and nothing has been written
RefusedUpdate(user, c) == users

update_user(token, id, c, fault) ==
    /\ req' = [op |-> "update_user", token |-> token, id |-> id, user |-> c]
    /\ IF ~get_current_user(token)
       THEN resp' = Unauthenticated("update_user") /\ UNCHANGED storeVars
       ELSE IF UserById(id) = {}
       THEN /\ resp' = HTTPException("update_user", 404, "User not found.")
            /\ UNCHANGED storeVars
       ELSE LET user == First(UserById(id))
                updated == Updated(user, c)
            IN IF UpdateConflict(user, c) # ""
               THEN /\ resp' = HTTPException("update_user", 400,
                                   UpdateConflict(user, c))
                    /\ users' = RefusedUpdate(user, c)
                    /\ UNCHANGED <<books, shelf, lists, seq, txns, now, members>>
               ELSE IF fault
               THEN /\ resp' = Unhandled("update_user")
                    /\ UNCHANGED storeVars
               ELSE /\ users' = (users \ {user}) \cup {updated}
                    /\ resp' = Reply("update_user", 200, "", updated)
                    /\ UNCHANGED <<books, shelf, lists, seq, txns, now, members>>
    /\ UNCHANGED cacheVars

----------------------------------------------------------------------------
(* POST /users/bookshelf, PUT /users/bookshelf *)

to_read == <<"to_read">>
reading == <<"reading">>
read == <<"read">>
abandoned == <<"abandoned">>

\* the statuses with one more that the table's check constraint does not list
StatusesAndLost == {to_read, reading, read, abandoned, <<"lost">>}

\* Bookshelf.READING_STATUSES
READING_STATUSES == {to_read, reading, read, abandoned}

\* raises 400 when the username is blank
dont_allow_empty_user(username) == ~Blank(username)

EntriesOf(u) == {e \in shelf : e.user_id = u.id}
EntryOf(u, book_id) == {e \in shelf : e.user_id = u.id /\ e.book_id = book_id}

\* one element of the "bookshelf" list of a BookshelfResponse
ShelfItem(e) ==
    LET book == First(BookById(e.book_id))
    IN [id |-> e.id, book_id |-> book.id, title |-> book.title,
        author |-> book.author, status |-> e.status]

BookshelfResponse(user, entries) ==
    [username |-> user.username, bookshelf |-> {ShelfItem(e) : e \in entries}]

\* every detail with which a handler reports a uniqueness or a capacity conflict
ConflictDetails ==
    {"Username already exists.", "Email already exists.",
     "Book with ISBN or title already exists",
     "Book already in user's bookshelf.",
     "User can have 3 reading lists simultaneously.",
     "Reading list with this name already exists."}

ConflictError(r) == r.status = 400 /\ r.detail \in ConflictDetails

\* the filter compares the wrong column
ExistingEntryWrongColumn(u, b) ==
    {e \in shelf : e.user_id = b.id /\ e.book_id = b.id}

\* filter(Bookshelf.user_id == user.id, Bookshelf.book_id == book.id)
ExistingEntry(u, b) == EntryOf(u, b.id)

\* the response lists every entry of the user
AddedBookshelfAll(u, entry) == EntriesOf(u) \cup {entry}

\* the entries add_book_to_bookshelf puts in its response: `bookshelf = [{...}]`
AddedBookshelf(u, entry) == {entry}

add_book_to_bookshelf(token, username, book_id, status, fault) ==
    /\ req' = [op |-> "add_book_to_bookshelf", token |-> token,
               username |-> username, book_id |-> book_id, status |-> status]
    /\ IF ~get_current_user(token)
       THEN resp' = Unauthenticated("add_book_to_bookshelf") /\ UNCHANGED storeVars
       ELSE IF ~dont_allow_empty_user(username)
       THEN /\ resp' = HTTPException("add_book_to_bookshelf", 400,
                           "You must provide a non-empty username.")
            /\ UNCHANGED storeVars
       ELSE IF Blank(status)
       THEN /\ resp' = HTTPException("add_book_to_bookshelf", 400,
                           "Status cannot be blank or whitespace.")
            /\ UNCHANGED storeVars
       ELSE IF status \notin READING_STATUSES
       THEN /\ resp' = HTTPException("add_book_to_bookshelf", 400, "Invalid status")
            /\ UNCHANGED storeVars
       ELSE IF UserByUsername(username) = {}
       THEN /\ resp' = HTTPException("add_book_to_bookshelf", 404, "User not found.")
            /\ UNCHANGED storeVars
       ELSE IF BookById(book_id) = {}
       THEN /\ resp' = HTTPException("add_book_to_bookshelf", 404, "Book not found.")
            /\ UNCHANGED storeVars
       ELSE LET user == First(UserByUsername(username))
                book == First(BookById(book_id))
                bookshelf_entry == [id |-> seq.shelf + 1, user_id |-> user.id,
                                    book_id |-> book.id, status |-> status]
            IN IF ExistingEntry(user, book) # {}
               THEN /\ resp' = HTTPException("add_book_to_bookshelf", 400,
                                   "Book already in user's bookshelf.")
                    /\ UNCHANGED storeVars
               ELSE IF fault
               THEN /\ resp' = Unhandled("add_book_to_bookshelf")
                    /\ UNCHANGED storeVars
               ELSE /\ seq.shelf < MaxEntries
                    /\ shelf' = shelf \cup {bookshelf_entry}
                    /\ seq' = [seq EXCEPT !.shelf = @ + 1]
                    /\ resp' = Reply("add_book_to_bookshelf", 200, "",
                                     BookshelfResponse(user,
                                         AddedBookshelf(user, bookshelf_entry)))
                    /\ UNCHANGED <<users, books, lists, txns, now, members>>
    /\ UNCHANGED cacheVars

\* the bookshelf of the response built from the entries as they were before
\* the status was assigned
RefreshedBookshelfStale(user, sh) ==
    {ShelfItem(e) : e \in {x \in shelf : x.user_id = user.id}}

\* db.query(models.Bookshelf).filter(user_id == user.id).all() after the commit,
\* each entry as a BookshelfEntry
RefreshedBookshelf(user, sh) ==
    {ShelfItem(e) : e \in {x \in sh : x.user_id = user.id}}

update_bookshelf_status(token, username, book_id, new_status, fault) ==
    /\ req' = [op |-> "update_bookshelf_status", token |-> token,
               username |-> username, book_id |-> book_id, status |-> new_status]
    /\ IF ~get_current_user(token)
       THEN resp' = Unauthenticated("update_bookshelf_status") /\ UNCHANGED storeVars
       ELSE IF ~dont_allow_empty_user(username)
       THEN /\ resp' = HTTPException("update_bookshelf_status", 400,
                           "You must provide a non-empty username.")
            /\ UNCHANGED storeVars
       ELSE IF UserByUsername(username) = {}
       THEN /\ resp' = HTTPException("update_bookshelf_status", 404, "User not found.")
            /\ UNCHANGED storeVars
       ELSE LET user == First(UserByUsername(username))
            IN IF EntryOf(user, book_id) = {}
               THEN /\ resp' = HTTPException("update_bookshelf_status", 404,
                                   "Book not found in user's bookshelf.")
                    /\ UNCHANGED storeVars
               ELSE IF new_status \notin READING_STATUSES
               THEN /\ resp' = HTTPException("update_bookshelf_status", 400,
                                   "Invalid status")
                    /\ UNCHANGED storeVars
               ELSE IF fault
               THEN /\ resp' = Unhandled("update_bookshelf_status")
                    /\ UNCHANGED storeVars
               ELSE LET bookshelf_entry == First(EntryOf(user, book_id))
                        changed == [bookshelf_entry EXCEPT !.status = new_status]
                        shelf2 == (shelf \ {bookshelf_entry}) \cup {changed}
                    IN /\ shelf' = shelf2
                       /\ resp' = Reply("update_bookshelf_status", 200, "",
                                     [username |-> user.username,
                                      bookshelf |-> RefreshedBookshelf(user, shelf2)])
                       /\ UNCHANGED <<users, books, lists, seq, txns, now, members>>
    /\ UNCHANGED cacheVars

----------------------------------------------------------------------------
(* POST /users/readinglists, DELETE /users/readinglists/{name} *)

\* the cap of create_reading_list: `if count >= 3`
MaxReadingLists == 3

ListsOf(u) == {l \in lists : l.user_id = u.id}
ListNamed(u, name) == {l \in lists : l.user_id = u.id /\ l.list_name = name}

\* the rows ever inserted into reading_lists, deleted ones included
ListCountEver(u) == seq.lists

\* query(ReadingList).filter(ReadingList.user_id == user.id).count()
ListCount(u) == Cardinality(ListsOf(u))

\* the cap compared with > in place of >=
AtListCapOffByOne(u) == ListCount(u) > MaxReadingLists

\* `if count >= 3`
AtListCap(u) == ListCount(u) >= MaxReadingLists

\* the owner forgotten in the filter
ExistingListAnyOwner(u, name) == {l \in lists : l.list_name = name}

\* filter(ReadingList.user_id == user.id, ReadingList.list_name == name)
ExistingList(u, name) == ListNamed(u, name)

\* reading_list.books
BooksOf(l) ==
    {b \in books : \E m \in members : m.reading_list_id = l.id /\ m.book_id = b.id}

\* ReadingListBookEntry(id=book.id, book_id=book.id, title=..., author=...)
ReadingListBookEntry(book) ==
    [id |-> book.id, book_id |-> book.id, title |-> book.title,
     author |-> book.author]

\* the response of delete_reading_list with the books of the list left out
ReadingListResponseNoBooks(l, user) ==
    [id |-> l.id, username |-> user.username, reading_list_name |-> l.list_name,
     books |-> {}]

ReadingListResponse(l, user) ==
    [id |-> l.id, username |-> user.username, reading_list_name |-> l.list_name,
     books |-> {ReadingListBookEntry(b) : b \in BooksOf(l)}]

create_reading_list(token, username, name, fault) ==
    /\ req' = [op |-> "create_reading_list", token |-> token,
               username |-> username, name |-> name]
    /\ IF ~get_current_user(token)
       THEN resp' = Unauthenticated("create_reading_list") /\ UNCHANGED storeVars
       ELSE IF ~dont_allow_empty_user(username)
       THEN /\ resp' = HTTPException("create_reading_list", 400,
                           "You must provide a non-empty username.")
            /\ UNCHANGED storeVars
       ELSE IF UserByUsername(username) = {}
       THEN /\ resp' = HTTPException("create_reading_list", 404, "User not found.")
            /\ UNCHANGED storeVars
       ELSE LET user == First(UserByUsername(username))
                reading_list == [id |-> seq.lists + 1, user_id |-> user.id,
                                 list_name |-> name]
            IN IF AtListCap(user)
               THEN /\ resp' = HTTPException("create_reading_list", 400,
                                   "User can have 3 reading lists simultaneously.")
                    /\ UNCHANGED storeVars
               ELSE IF ExistingList(user, name) # {}
               THEN /\ resp' = HTTPException("create_reading_list", 400,
                                   "Reading list with this name already exists.")
                    /\ UNCHANGED storeVars
               ELSE IF fault
               THEN /\ resp' = Unhandled("create_reading_list")
                    /\ UNCHANGED storeVars
               ELSE /\ seq.lists < MaxLists
                    /\ lists' = lists \cup {reading_list}
                    /\ seq' = [seq EXCEPT !.lists = @ + 1]
                    /\ resp' = Reply("create_reading_list", 200, "",
                                     ReadingListResponse(reading_list, user))
                    /\ UNCHANGED <<users, books, shelf, txns, now, members>>
    /\ UNCHANGED cacheVars

delete_reading_list(token, username, name, fault) ==
    /\ req' = [op |-> "delete_reading_list", token |-> token,
               username |-> username, name |-> name]
    /\ IF ~get_current_user(token)
       THEN resp' = Unauthenticated("delete_reading_list") /\ UNCHANGED storeVars
       ELSE IF ~dont_allow_empty_user(username)
       THEN /\ resp' = HTTPException("delete_reading_list", 400,
                           "You must provide a non-empty username.")
            /\ UNCHANGED storeVars
       ELSE IF Blank(name)
       THEN /\ resp' = HTTPException("delete_reading_list", 400,
                           "You must provide a non-empty reading list name.")
            /\ UNCHANGED storeVars
       ELSE IF UserByUsername(username) = {}
       THEN /\ resp' = HTTPException("delete_reading_list", 404, "User not found.")
            /\ UNCHANGED storeVars
       ELSE LET user == First(UserByUsername(username))
            IN IF ListNamed(user, name) = {}
               THEN /\ resp' = HTTPException("delete_reading_list", 404,
                                   "Reading list not found.")
                    /\ UNCHANGED storeVars
               ELSE IF fault
               THEN /\ resp' = HTTPException("delete_reading_list", 500, "Database error")
                    /\ UNCHANGED storeVars
               ELSE LET reading_list == First(ListNamed(user, name))
                    IN /\ lists' = lists \ {reading_list}
                       /\ members' = {m \in members :
                                         m.reading_list_id # reading_list.id}
                       /\ resp' = Reply("delete_reading_list", 200, "",
                                        ReadingListResponse(reading_list, user))
                       /\ UNCHANGED <<users, books, shelf, seq, txns, now>>
    /\ UNCHANGED cacheVars

----------------------------------------------------------------------------
(* Requests that overlap: a handler that creates a row runs its checks and   *)
(* calls db.add, and other requests are served before its db.commit          *)

FreeSessions == {n \in 1..MaxTxns : \A t \in txns : t.sid # n}

\* the handler has not answered yet
NoResponse(op) == Reply(op, 0, "", NoBody)

\* the checks of the handler have passed and it has called db.add(row)
db_add(handler, row, by) ==
    /\ FreeSessions # {}
    /\ LET sid == CHOOSE n \in FreeSessions : \A m \in FreeSessions : n <= m
       IN /\ txns' = txns \cup {[sid |-> sid, op |-> handler, row |-> row,
                                 by |-> by]}
          /\ req' = [op |-> "db.add", handler |-> handler, sid |-> sid]
    /\ resp' = NoResponse(handler)
    /\ UNCHANGED <<users, books, shelf, lists, seq, now, members, cacheVars>>

\* register_user up to db.add(db_user)
register_user_add(c) ==
    /\ RegisterCheck(c) = ""
    /\ db_add("register_user",
              [username |-> c.username, email |-> c.email,
               hashed_password |-> get_password_hash(c.password),
               created_at |-> now, updated_at |-> now],
              c.username)

\* create_book up to db.add(db_book)
create_book_add(token, c) ==
    /\ get_current_user(token)
    /\ FirstBlankField(c) = 0
    /\ ExistingBook(c) = {}
    /\ db_add("create_book",
              [title |-> c.title, author |-> c.author, isbn |-> c.isbn,
               genre |-> c.genre, description |-> c.description],
              token)

\* add_book_to_bookshelf up to db.add(bookshelf_entry)
add_book_to_bookshelf_add(token, username, book_id, status) ==
    /\ get_current_user(token)
    /\ dont_allow_empty_user(username)
    /\ status \in READING_STATUSES
    /\ UserByUsername(username) # {}
    /\ BookById(book_id) # {}
    /\ ExistingEntry(First(UserByUsername(username)), First(BookById(book_id))) = {}
    /\ db_add("add_book_to_bookshelf",
              [user_id |-> First(UserByUsername(username)).id,
               book_id |-> book_id, status |-> status],
              username)

\* create_reading_list up to db.add(reading_list)
create_reading_list_add(token, username, name) ==
    /\ get_current_user(token)
    /\ dont_allow_empty_user(username)
    /\ UserByUsername(username) # {}
    /\ ~AtListCap(First(UserByUsername(username)))
    /\ ExistingList(First(UserByUsername(username)), name) = {}
    /\ db_add("create_reading_list",
              [user_id |-> First(UserByUsername(username)).id, list_name |-> name],
              username)

\* the INSERT of the session breaks a unique constraint of the tables:
\* users.username, users.email and books.isbn are unique=True, and no other
\* column or pair of columns is
IntegrityError(t) ==
    CASE t.op = "register_user"
           -> \E u \in users : u.username = t.row.username \/ u.email = t.row.email
      [] t.op = "create_book" -> \E b \in books : b.isbn = t.row.isbn
      [] OTHER -> FALSE

\* the table of the handler's row
TableOf(handler) ==
    CASE handler = "register_user" -> "users"
      [] handler = "create_book" -> "books"
      [] handler = "add_book_to_bookshelf" -> "shelf"
      [] handler = "create_reading_list" -> "lists"

RowLimit ==
    [users |-> MaxUsers, books |-> MaxBooks, shelf |-> MaxEntries,
     lists |-> MaxLists]

\* what the handler returns after db.commit() and db.refresh(row)
Created(handler, row, by) ==
    CASE handler = "register_user" -> Reply(handler, 201, "", row)
      [] handler = "create_book" -> Reply(handler, 200, "", row)
      [] handler = "add_book_to_bookshelf"
           -> Reply(handler, 200, "",
                    [username |-> by,
                     bookshelf |-> {ShelfItem(e) : e \in {row}}])
      [] handler = "create_reading_list"
           -> Reply(handler, 200, "",
                    [id |-> row.id, username |-> by,
                     reading_list_name |-> row.list_name, books |-> {}])

\* db.commit() of the session t and the rest of its handler: the row is stored
\* with the next id of its table, unless the INSERT breaks a unique constraint;
\* create_book catches that exception and the other three handlers do not
db_commit(t) ==
    /\ t \in txns
    /\ txns' = txns \ {t}
    /\ req' = [op |-> "db.commit", handler |-> t.op, sid |-> t.sid]
    /\ IF IntegrityError(t)
       THEN /\ resp' = IF t.op = "create_book"
                       THEN HTTPException(t.op, 500, "Database error")
                       ELSE Unhandled(t.op)
            /\ UNCHANGED <<users, books, shelf, lists, seq>>
       ELSE /\ seq[TableOf(t.op)] < RowLimit[TableOf(t.op)]
            /\ LET row == [id |-> seq[TableOf(t.op)] + 1] @@ t.row
               IN /\ users' = IF t.op = "register_user" THEN users \cup {row}
                               ELSE users
                  /\ books' = IF t.op = "create_book" THEN books \cup {row}
                               ELSE books
                  /\ shelf' = IF t.op = "add_book_to_bookshelf"
                               THEN shelf \cup {row} ELSE shelf
                  /\ lists' = IF t.op = "create_reading_list"
                               THEN lists \cup {row} ELSE lists
                  /\ seq' = [seq EXCEPT ![TableOf(t.op)] = @ + 1]
                  /\ resp' = Created(t.op, row, t.by)
    /\ UNCHANGED <<now, members, cacheVars>>

----------------------------------------------------------------------------
(* The lookup cache: @alru_cache(maxsize=64) on cached_search_openlibrary *)

maxsize == 64

herbert == <<"H">>
QueryTerms == <<dune, <<"d">>, <<"D", " ">>, emma>>
AuthorTerms == <<None, herbert>>

NumKeys == maxsize + ExtraKeys

\* the n-th lookup key (title_or_author, author, limit), all of them different
Key(n) ==
    <<QueryTerms[((n - 1) % 4) + 1],
      AuthorTerms[(((n - 1) \div 4) % 2) + 1],
      ((n - 1) \div 8) + 1>>

Keys == {Key(n) : n \in 1..NumKeys}

\* the key whose remote answers vary from call to call
HotKeys == {Key(1)}

\* what search_openlibrary returns, and the HTTPException it raises
Found(payload) == [kind |-> "ok", val |-> payload]
Raised(status, detail) == [kind |-> "error", val |-> status, detail |-> detail]

\* what the request to Open Library does: it answers with a status code (and a
\* payload), it fails to connect or times out (httpx.RequestError), or something
\* else goes wrong (response.json() on a body that is not JSON, for instance)
Answer(code, payload) == [kind |-> "response", status_code |-> code, json |-> payload]
RequestError == [kind |-> "httpx.RequestError"]
OtherError == [kind |-> "Exception"]

\* the try block of search_openlibrary: what it returns, or the exception that
\* leaves it, with its class
TryBlock(remote) ==
    CASE remote.kind = "response" /\ remote.status_code = 429
           -> [kind |-> "raise", class |-> "HTTPException", status |-> 503,
               detail |-> "Open Library API rate limit exceeded."]
      [] remote.kind = "response" /\ remote.status_code # 200
           -> [kind |-> "raise", class |-> "HTTPException", status |-> 502,
               detail |-> "Open Library API error"]
      [] remote.kind = "response" /\ remote.status_code = 200
           -> Found(remote.json)
      [] OTHER -> [kind |-> "raise", class |-> remote.kind]

\* the classes `except httpx.RequestError` catches: HTTPException is not one
IsRequestError(class) == class = "httpx.RequestError"

\* `except httpx.RequestError` and then `except Exception`, which catches every
\* other exception raised in the try block, the two HTTPExceptions of the block
\* included
ExceptClauses(raised) ==
    IF IsRequestError(raised.class)
    THEN Raised(502, "Error connecting to Open Library API")
    ELSE Raised(500, "Unexpected error")

search_openlibrary(remote) ==
    LET r == TryBlock(remote)
    IN IF r.kind = "raise" THEN ExceptClauses(r) ELSE r

\* what Open Library may do on a request for key k
Remotes(k) ==
    IF k \in HotKeys THEN {Answer(200, 1), Answer(200, 2), Answer(429, 0)}
    ELSE {Answer(200, 1)}

\* the author left out of the key
SameKeyNoAuthor(a, b) == a[1] = b[1] /\ a[3] = b[3]

\* the key of a call is the tuple of its arguments, compared as it is
SameKey(a, b) == a = b

Resident == {cache[i].key : i \in 1..Len(cache)}

Has(k) == \E i \in 1..Len(cache) : SameKey(cache[i].key, k)

IndexOf(k) == CHOOSE i \in 1..Len(cache) : SameKey(cache[i].key, k)

Without(c, i) == SubSeq(c, 1, i - 1) \o SubSeq(c, i + 1, Len(c))

\* OrderedDict.move_to_end(key)
move_to_end(c, i) == Without(c, i) \o <<c[i]>>

\* the newest entry dropped in place of the oldest
EvictNewest(c) == IF Len(c) > maxsize THEN SubSeq(c, 1, Len(c) - 1) ELSE c

\* `if len(cache) > maxsize: cache.popitem(last=False)`
Evict(c) == IF Len(c) > maxsize THEN Tail(c) ELSE c

\* the outcome of an entry whose task, the one numbered id, has not finished
Pending(id) == [kind |-> "pending", val |-> id]

\* a miss: the entry of the new task id is put at the end before the task runs,
\* and the oldest entry makes room for it
Inserted(c, k, id) == Evict(c \o <<[key |-> k, out |-> Pending(id)]>>)

\* nothing popped
PoppedNothing(c, k) == c

\* cache.pop(key, None)
Popped(c, k) ==
    IF \E i \in 1..Len(c) : c[i].key = k
    THEN Without(c, CHOOSE i \in 1..Len(c) : c[i].key = k)
    ELSE c

\* the callback of the finished task id: its future gets the outcome, which the
\* entry that holds the future, when it is still resident, then shows; for an
\* exception the installed async_lru either keeps the entry (keeps = TRUE) or
\* pops whatever entry the key has
Settled(c, k, id, out, keeps) ==
    IF out.kind = "error" /\ ~keeps
    THEN Popped(c, k)
    ELSE [i \in 1..Len(c) |->
            IF c[i].out = Pending(id) THEN [c[i] EXCEPT !.out = out] ELSE c[i]]

\* _cache_hit
CountedAsHit(s) == [s EXCEPT !.hits = @ + 1]

\* a miss counted as a hit too
CountedAsMissAndHit(s) == [s EXCEPT !.misses = @ + 1, !.hits = @ + 1]

\* _cache_miss
CountedAsMiss(s) == [s EXCEPT !.misses = @ + 1]

\* a call of cached_search_openlibrary with no other request served before it
\* returns: a resident entry answers it, and otherwise search_openlibrary is
\* awaited and its outcome settled
cached_search_openlibrary(k, remote, keeps) ==
    /\ req' = [op |-> "cached_search_openlibrary", key |-> k]
    /\ IF Has(k)
       THEN /\ cache[IndexOf(k)].out.kind # "pending"
            /\ stats.hits < MaxHits
            /\ stats' = CountedAsHit(stats)
            /\ cache' = move_to_end(cache, IndexOf(k))
            /\ resp' = [op |-> "cached_search_openlibrary", called |-> FALSE,
                        out |-> cache[IndexOf(k)].out]
       ELSE /\ stats.misses < maxsize + ExtraMisses
            /\ stats' = CountedAsMiss(stats)
            /\ cache' = Settled(Inserted(cache, k, 0), k, 0,
                                search_openlibrary(remote), keeps)
            /\ resp' = [op |-> "cached_search_openlibrary", called |-> TRUE,
                        out |-> search_openlibrary(remote), remote |-> remote]
    /\ UNCHANGED <<storeVars, flight>>

\* the tasks of search_openlibrary that run
TaskIds == 1..MaxFlights
FreeIds == {id \in TaskIds : \A t \in flight : t.id # id}

\* a call of cached_search_openlibrary up to its await: a resident entry is a
\* hit, and when its task has not finished the caller waits for it with the
\* callers before it; otherwise a task is created for search_openlibrary, its
\* entry inserted, and the caller waits for it
cached_search_openlibrary_call(k) ==
    /\ stats.hits + stats.misses < MaxCalls
    /\ req' = [op |-> "cached_search_openlibrary", key |-> k]
    /\ IF Has(k)
       THEN /\ stats' = [stats EXCEPT !.hits = @ + 1]
            /\ cache' = move_to_end(cache, IndexOf(k))
            /\ flight' = {IF Pending(t.id) = cache[IndexOf(k)].out
                          THEN [t EXCEPT !.waiters = @ + 1] ELSE t : t \in flight}
            /\ resp' = [op |-> "cached_search_openlibrary", called |-> FALSE,
                        out |-> cache[IndexOf(k)].out]
       ELSE /\ FreeIds # {}
            /\ LET id == CHOOSE i \in FreeIds : \A j \in FreeIds : i <= j
               IN /\ stats' = CountedAsMiss(stats)
                  /\ cache' = Inserted(cache, k, id)
                  /\ flight' = flight \cup {[id |-> id, key |-> k, waiters |-> 1]}
                  /\ resp' = [op |-> "cached_search_openlibrary", called |-> TRUE,
                              out |-> Pending(id)]
    /\ UNCHANGED storeVars

\* the task t of search_openlibrary finishes: the callers that wait for it all
\* get its outcome
search_openlibrary_done(t, remote, keeps) ==
    /\ t \in flight
    /\ flight' = flight \ {t}
    /\ cache' = Settled(cache, t.key, t.id, search_openlibrary(remote), keeps)
    /\ req' = [op |-> "search_openlibrary", key |-> t.key, id |-> t.id,
               remote |-> remote]
    /\ resp' = [op |-> "search_openlibrary", out |-> search_openlibrary(remote),
                waiters |-> t.waiters]
    /\ UNCHANGED <<storeVars, stats>>

\* cache_info(): hits, misses, maxsize, currsize
cache_info ==
    [hits |-> stats.hits, misses |-> stats.misses, maxsize |-> maxsize,
     currsize |-> Len(cache)]

get_openlibrary_cache_info ==
    /\ req' = [op |-> "get_openlibrary_cache_info"]
    /\ resp' = Reply("get_openlibrary_cache_info", 200, "", cache_info)
    /\ UNCHANGED <<storeVars, cacheVars>>

\* the counters reset and the entries kept
ClearedCountersOnly == cache

\* cache_clear() empties the entry table
Cleared == <<>>

\* cache_clear() empties the cache and resets the counters, and leaves the tasks
\* that run to finish; the handler awaits what cache_clear() returns, which
\* raises TypeError (a 500 response, after the cache was emptied) when the
\* installed async_lru returns None from it.  The handler declares no
\* dependency on get_current_user: the token of the request is not looked at
clear_openlibrary_cache(token, awaitable) ==
    /\ cache' = Cleared
    /\ stats' = [hits |-> 0, misses |-> 0]
    /\ req' = [op |-> "clear_openlibrary_cache", token |-> token,
               resident |-> Resident]
    /\ resp' = IF awaitable
               THEN Reply("clear_openlibrary_cache", 200, "Cache cleared.", NoBody)
               ELSE HTTPException("clear_openlibrary_cache", 500, "TypeError")
    /\ UNCHANGED <<storeVars, flight>>

\* GET /books/search

\* the filter of the search with `and` in place of or_
LocalBooksBoth(title, author) ==
    IF Truthy(title) /\ Truthy(author)
    THEN {b \in books : b.title = title /\ b.author = author}
    ELSE IF Truthy(title) THEN {b \in books : b.title = title}
    ELSE IF Truthy(author) THEN {b \in books : b.author = author}
    ELSE books

\* `if title and author: ... or_(...)`, `elif title`, `elif author`, query.all()
LocalBooks(title, author) ==
    IF Truthy(title) /\ Truthy(author)
    THEN {b \in books : b.title = title \/ b.author = author}
    ELSE IF Truthy(title) THEN {b \in books : b.title = title}
    ELSE IF Truthy(author) THEN {b \in books : b.author = author}
    ELSE books

\* the arguments of cached_search_openlibrary(title or author, author, limit)
SearchKey(title, author, limit) ==
    <<IF Truthy(title) THEN title ELSE author, author, limit>>

\* the handler has no dependency on get_current_user.  With external it awaits
\* cached_search_openlibrary once, after the local query; an HTTPException of
\* the lookup leaves the handler as it is (`except HTTPException: raise`)
get_book_by_name_or_author(title, author, limit, external, remote, keeps) ==
    LET op == "get_book_by_name_or_author"
        k == SearchKey(title, author, limit)
        hit == Has(k)
        out == IF hit THEN cache[IndexOf(k)].out ELSE search_openlibrary(remote)
    IN /\ req' = [op |-> op, title |-> title, author |-> author,
                  external |-> external]
       /\ IF Blank(title) /\ Blank(author)
          THEN /\ resp' = HTTPException(op, 400,
                              "You must provide at least a non-empty title or author.")
               /\ UNCHANGED cacheVars
          ELSE IF ~external
          THEN /\ resp' = IF LocalBooks(title, author) = {}
                          THEN HTTPException(op, 404, "No data found locally.")
                          ELSE Reply(op, 200, "",
                                     [local |-> LocalBooks(title, author),
                                      external |-> {}])
               /\ UNCHANGED cacheVars
          ELSE /\ IF hit
                  THEN /\ cache[IndexOf(k)].out.kind # "pending"
                       /\ stats.hits < MaxHits
                       /\ stats' = CountedAsHit(stats)
                       /\ cache' = move_to_end(cache, IndexOf(k))
                  ELSE /\ stats.misses < MaxCalls
                       /\ stats' = CountedAsMiss(stats)
                       /\ cache' = Settled(Inserted(cache, k, 0), k, 0, out, keeps)
               /\ resp' = IF out.kind = "error"
                          THEN HTTPException(op, out.val, out.detail)
                          ELSE Reply(op, 200, "",
                                     [local |-> LocalBooks(title, author),
                                      external |-> {out.val}])
               /\ UNCHANGED flight
       /\ UNCHANGED storeVars

\* the lookups the model makes: the other keys in the order of their numbers, each
\* after the highest one resident, the hot key while the cache holds few
\* entries and again from when it is one entry short of full, and right after a
\* clear those of the keys it dropped that have the highest numbers
HighestResident ==
    IF cache = <<>> THEN 0
    ELSE CHOOSE n \in 1..NumKeys :
            /\ Key(n) \in Resident
            /\ \A m \in (n + 1)..NumKeys : Key(m) \notin Resident

Lookups ==
    (IF Len(cache) <= WarmUp \/ Len(cache) >= maxsize - 1 THEN HotKeys ELSE {})
    \cup (IF req.op = "clear_openlibrary_cache"
          THEN req.resident \cap {Key(n) : n \in maxsize..NumKeys}
          ELSE {})
    \cup {Key(n) : n \in {HighestResident + 1} \cap (1..NumKeys)}

----------------------------------------------------------------------------
(* Specifications *)

UserIds == 1..MaxUsers
BookIds == 1..MaxBooks

annUser == [username |-> ann, email |-> annMail, password |-> <<"p">>]
bobUser == [username |-> bob, email |-> bobMail, password |-> <<"p">>]
duneBook ==
    [title |-> dune, author |-> <<"H">>, isbn |-> <<"1">>, genre |-> <<"g">>,
     description |-> <<"d">>]
emmaBook == [duneBook EXCEPT !.title = emma, !.isbn = <<"2">>]

\* users alone: registration, update and deletion
NextUsers ==
    \/ \E c \in UserCandidates : register_user(c, FALSE)
    \/ \E t \in Tokens, u \in UsernameSelectors, e \in EmailSelectors :
          delete_user(t, u, e, FALSE)
    \/ \E t \in Tokens, id \in UserIds, c \in UserUpdates : update_user(t, id, c, FALSE)

SpecUsers == Init /\ [][NextUsers]_vars

\* users found and deleted by selectors that are absent, empty, whitespace or
\* the username or email of a user
NextSelect ==
    \/ \E c \in {annUser, bobUser} : register_user(c, FALSE)
    \/ \E u \in UsernameSelectors \cup {empty}, e \in EmailSelectors \cup {spaces} :
          get_user(ann, u, e)
    \/ \E u \in UsernameSelectors \cup {empty}, e \in EmailSelectors \cup {spaces} :
          delete_user(ann, u, e, FALSE)

SpecSelect == Init /\ [][NextSelect]_vars

\* A store that earlier runs left.  No handler writes reading_list_books, so from
\* empty tables no reading list ever has a book: the handlers that read or
\* delete the books of a list are run from tables that hold ann and bob, two
\* books, a list of each user, and any rows of reading_list_books for them
StoredUsers ==
    {[id |-> 1, username |-> ann, email |-> annMail,
      hashed_password |-> get_password_hash(<<"p">>), created_at |-> 0,
      updated_at |-> 0],
     [id |-> 2, username |-> bob, email |-> bobMail,
      hashed_password |-> get_password_hash(<<"p">>), created_at |-> 0,
      updated_at |-> 0]}

StoredBooks == {[id |-> 1] @@ duneBook, [id |-> 2] @@ emmaBook}

StoredLists ==
    {[id |-> 1, user_id |-> 1, list_name |-> faves],
     [id |-> 2, user_id |-> 2, list_name |-> faves]}

InitStored ==
    /\ users = StoredUsers
    /\ books = StoredBooks
    /\ shelf = {}
    /\ lists = StoredLists
    /\ seq = [users |-> 2, books |-> 2, shelf |-> 0, lists |-> 2]
    /\ txns = {}
    /\ now = 0
    /\ members \in SUBSET ([reading_list_id : {1}, book_id : {1, 2}]
                            \cup [reading_list_id : {2}, book_id : {1}])
    /\ req = [op |-> "start"]
    /\ resp = Reply("start", 200, "", NoBody)
    /\ cache = <<>>
    /\ stats = [hits |-> 0, misses |-> 0]
    /\ flight = {}

NextStored ==
    \/ \E u \in Usernames \cup {spaces}, name \in {faves, <<"G">>, spaces} :
          delete_reading_list(ann, u, name, FALSE)
    \/ \E name \in {faves, <<"G">>} : create_reading_list(ann, ann, name, FALSE)
    \/ \E id \in {1, 2, 3} : delete_book(ann, id, FALSE)
    \/ \E u \in Usernames : delete_user(ann, u, None, FALSE)
    \/ \E u \in Usernames : add_book_to_bookshelf(ann, u, 1, reading, FALSE)

SpecStored == InitStored /\ [][NextStored]_vars

\* users that log in: ann and bob with different passwords, renamed or deleted
\* in between
LoginNames == Usernames \cup {None, empty, spaces}
LoginPasswords == {<<"p">>, <<"q">>, None, empty, spaces}

NextLogin ==
    \/ \E c \in {annUser, [bobUser EXCEPT !.password = <<"q">>]} :
          register_user(c, FALSE)
    \/ \E u \in LoginNames, p \in LoginPasswords : login(u, p)
    \/ \E id \in UserIds, c \in UserUpdates : update_user(ann, id, c, FALSE)
    \/ \E u \in Usernames : delete_user(ann, u, None, FALSE)

SpecLogin == Init /\ [][NextLogin]_vars

\* every handler of users, books, bookshelves and reading lists, each with
\* requests that it refuses and requests that it serves
NextChecks ==
    \/ \E c \in {annUser, bobUser, [annUser EXCEPT !.username = spaces]} :
          register_user(c, FALSE)
    \/ \E p \in {<<"p">>, <<"q">>} : login(bob, p)
    \/ update_user(ann, 2, [username |-> <<"c">>, email |-> annMail], FALSE)
    \/ get_user(ann, bob, None)
    \/ \E u \in {bob, None} : delete_user(ann, u, None, FALSE)
    \/ \E c \in {duneBook, [emmaBook EXCEPT !.isbn = <<"1">>]} :
          create_book(ann, c, FALSE)
    \/ delete_book(ann, 1, FALSE)
    \/ \E st \in {reading, <<"lost">>} : add_book_to_bookshelf(ann, ann, 1, st, FALSE)
    \/ \E st \in {read, <<"lost">>} :
          update_bookshelf_status(ann, ann, 1, st, FALSE)
    \/ \E name \in {faves, <<"G">>, <<"H">>} :
          create_reading_list(ann, ann, name, FALSE)
    \/ delete_reading_list(ann, ann, faves, FALSE)

SpecChecks == Init /\ [][NextChecks]_vars

\* the catalog and its search, with and without Open Library
austenBook == [emmaBook EXCEPT !.author = <<"A">>]

SearchTitles == {dune, emma, None, spaces}
SearchAuthors == {herbert, <<"A">>, None, spaces}

NextSearch ==
    \/ register_user(annUser, FALSE)
    \/ \E c \in {duneBook, austenBook} : create_book(ann, c, FALSE)
    \/ \E title \in SearchTitles, author \in SearchAuthors :
          get_book_by_name_or_author(title, author, 5, FALSE, Answer(200, 1), TRUE)
    \/ \E title \in {dune, None}, author \in {<<"A">>, spaces},
          remote \in {Answer(200, 1), Answer(429, 0)} :
          get_book_by_name_or_author(title, author, 5, TRUE, remote, TRUE)
    \/ clear_openlibrary_cache(ann, TRUE)

SpecSearch == Init /\ [][NextSearch]_vars

\* users, with time passing between the requests
NextClock ==
    \/ \E c \in {annUser, bobUser} : register_user(c, FALSE)
    \/ \E id \in UserIds \cup {MaxUsers + 1}, c \in UserUpdates :
          update_user(ann, id, c, FALSE)
    \/ Tick

SpecClock == Init /\ [][NextClock]_vars

\* the catalog: one user and the books
NextBooks ==
    \/ register_user(annUser, FALSE)
    \/ \E t \in Tokens, c \in BookCandidates : create_book(t, c, FALSE)
    \/ \E t \in Tokens, id \in BookIds : delete_book(t, id, FALSE)

SpecBooks == Init /\ [][NextBooks]_vars

\* the requests on a bookshelf: every user, book and status with a valid token,
\* and one request for each way of failing before the store is read
ShelfRequests(statuses) ==
    [token : {ann}, username : Usernames, book_id : BookIds, status : statuses]
    \cup [token : {BadToken}, username : {ann}, book_id : {1}, status : {to_read}]
    \cup [token : {ann}, username : {empty}, book_id : {1}, status : {to_read}]
    \cup [token : {ann}, username : {ann}, book_id : {1},
           status : {spaces, <<"lost">>}]

\* users, books and bookshelves
Next ==
    \/ \E c \in {annUser, bobUser} : register_user(c, FALSE)
    \/ \E c \in {duneBook, emmaBook} : create_book(ann, c, FALSE)
    \/ \E id \in BookIds : delete_book(ann, id, FALSE)
    \/ delete_user(ann, bob, None, FALSE)
    \/ \E r \in ShelfRequests({reading}) :
          add_book_to_bookshelf(r.token, r.username, r.book_id, r.status, FALSE)
    \/ \E r \in ShelfRequests({read}) :
          update_bookshelf_status(r.token, r.username, r.book_id, r.status, FALSE)

Spec == Init /\ [][Next]_vars

\* the requests on reading lists: every name for ann, one name for bob, and one
\* request for each way of failing before the store is read
ListRequests ==
    [token : {ann}, username : {ann}, name : ListNames]
    \cup [token : {ann}, username : {bob}, name : {faves}]
    \cup [token : {BadToken}, username : {ann}, name : {faves}]
    \cup [token : {ann}, username : {spaces}, name : {faves}]

\* users and reading lists
NextLists ==
    \/ \E c \in {annUser, bobUser} : register_user(c, FALSE)
    \/ \E r \in ListRequests : create_reading_list(r.token, r.username, r.name, FALSE)
    \/ \E r \in ListRequests \cup [token : {ann}, username : {ann}, name : {spaces}] :
          delete_reading_list(r.token, r.username, r.name, FALSE)
    \/ delete_user(ann, bob, None, FALSE)

SpecLists == Init /\ [][NextLists]_vars

\* the lookup cache
NextCache ==
    \/ \E k \in Lookups, keeps \in BOOLEAN : \E remote \in Remotes(k) :
          cached_search_openlibrary(k, remote, keeps)
    \/ get_openlibrary_cache_info
    \/ \E awaitable \in BOOLEAN : clear_openlibrary_cache(ann, awaitable)

SpecCache == Init /\ [][NextCache]_vars

\* lookups that overlap: calls of two keys that wait for their tasks, the tasks
\* finishing in any order with whatever Open Library does, and clears between
FlightKeys == {Key(1), Key(2)}

AllRemotes ==
    {Answer(200, 1), Answer(429, 0), Answer(500, 0), RequestError, OtherError}

NextFlight ==
    \/ \E k \in FlightKeys : cached_search_openlibrary_call(k)
    \/ \E t \in flight, keeps \in BOOLEAN : \E remote \in AllRemotes :
          search_openlibrary_done(t, remote, keeps)
    \/ get_openlibrary_cache_info
    \/ \E awaitable \in BOOLEAN : clear_openlibrary_cache(ann, awaitable)

SpecFlight == Init /\ [][NextFlight]_vars

\* every handler that writes the store, with commits that may fail
NextFaults ==
    \/ \E c \in {annUser, bobUser}, fault \in BOOLEAN : register_user(c, fault)
    \/ \E id \in UserIds, c \in UserUpdates, fault \in BOOLEAN :
          update_user(ann, id, c, fault)
    \/ \E fault \in BOOLEAN : delete_user(ann, bob, None, fault)
    \/ \E fault \in BOOLEAN : create_book(ann, duneBook, fault)
    \/ \E fault \in BOOLEAN : delete_book(ann, 1, fault)
    \/ \E u \in Usernames, fault \in BOOLEAN :
          add_book_to_bookshelf(ann, u, 1, reading, fault)
    \/ \E u \in Usernames, fault \in BOOLEAN :
          update_bookshelf_status(ann, u, 1, read, fault)
    \/ \E fault \in BOOLEAN : create_reading_list(ann, ann, faves, fault)
    \/ \E fault \in BOOLEAN : delete_reading_list(ann, ann, faves, fault)

SpecFaults == Init /\ [][NextFaults]_vars

\* the four handlers that create a row, each with another request served
\* between its checks and its commit
NextRace ==
    \/ \E c \in {annUser, bobUser, [bobUser EXCEPT !.email = annMail]} :
          register_user_add(c)
    \/ \E c \in {duneBook, [duneBook EXCEPT !.isbn = <<"2">>]} :
          create_book_add(ann, c)
    \/ \E u \in Usernames : add_book_to_bookshelf_add(ann, u, 1, reading)
    \/ \E name \in {faves, <<"G">>} : create_reading_list_add(ann, ann, name)
    \/ \E t \in txns : db_commit(t)

SpecRace == Init /\ [][NextRace]_vars

\* every handler that writes the store or empties the cache, called with and
\* without a valid token, and the lookups that fill the cache
NextAuth ==
    \/ register_user(annUser, FALSE)
    \/ register_user(bobUser, FALSE)
    \/ \E token \in Tokens : update_user(token, 2, annUser, FALSE)
    \/ \E token \in Tokens : delete_user(token, bob, None, FALSE)
    \/ \E token \in Tokens : create_book(token, duneBook, FALSE)
    \/ \E token \in Tokens : delete_book(token, 1, FALSE)
    \/ \E token \in Tokens : add_book_to_bookshelf(token, ann, 1, reading, FALSE)
    \/ \E token \in Tokens : update_bookshelf_status(token, ann, 1, read, FALSE)
    \/ \E token \in Tokens : create_reading_list(token, ann, faves, FALSE)
    \/ \E token \in Tokens : delete_reading_list(token, ann, faves, FALSE)
    \/ \E k \in FlightKeys : cached_search_openlibrary(k, Answer(200, 1), TRUE)
    \/ \E token \in Tokens, awaitable \in BOOLEAN :
          clear_openlibrary_cache(token, awaitable)

SpecAuth == Init /\ [][NextAuth]_vars

----------------------------------------------------------------------------
(* Properties.  A step is told by req', the request it served; UserByUsername,  *)
(* users, shelf, ... without a prime are the store before the step.             *)

NonBlankUser(c) == ~Blank(c.username) /\ ~Blank(c.email) /\ ~Blank(c.password)

UsernameTaken(c) == \E u \in users : u.username = c.username
EmailTaken(c) == \E u \in users : u.email = c.email

\* C1: register_user with a username or an email that a stored user has fails
\* with status 400 and leaves the users as they were, whichever of the two
\* collides; for a candidate with no blank field the failure is a conflict.
C1_RegisterConflict ==
    [][(req'.op = "register_user" /\ (UsernameTaken(req'.user) \/ EmailTaken(req'.user)))
        => /\ resp'.status = 400
           /\ users' = users
           /\ NonBlankUser(req'.user) => ConflictError(resp')]_vars

\* the email alone collided and the registration was refused
C1_Witness ==
    /\ req.op = "register_user"
    /\ ConflictError(resp)
    /\ EmailTaken(req.user)
    /\ ~UsernameTaken(req.user)

\* C2 as claimed: a candidate whose username and email both collide gets a
\* message that is neither the username-only nor the email-only message.
C2_ThreeMessages ==
    [][(/\ req'.op = "register_user"
        /\ NonBlankUser(req'.user)
        /\ UsernameTaken(req'.user)
        /\ EmailTaken(req'.user))
        => /\ ConflictError(resp')
           /\ resp'.detail \notin {"Username already exists.", "Email already exists."}]_vars

\* C2 amended: the conflict message of register_user is "Username already
\* exists." whenever the username collides, whether the email collides or not,
\* and "Email already exists." when the email alone collides.
C2_TwoMessages ==
    [][(req'.op = "register_user" /\ NonBlankUser(req'.user))
        => /\ UsernameTaken(req'.user) => resp'.detail = "Username already exists."
           /\ (EmailTaken(req'.user) /\ ~UsernameTaken(req'.user))
                 => resp'.detail = "Email already exists."]_vars

\* username and email both collided
C2_Witness ==
    /\ req.op = "register_user"
    /\ NonBlankUser(req.user)
    /\ UsernameTaken(req.user)
    /\ EmailTaken(req.user)
    /\ resp.detail = "Username already exists."

OnePerPair ==
    \A e1 \in shelf, e2 \in shelf :
        (e1.user_id = e2.user_id /\ e1.book_id = e2.book_id) => e1 = e2

\* the user of the request has an entry for the book of the request
HasEntry(r) ==
    \E u \in users, e \in shelf :
        u.username = r.username /\ e.user_id = u.id /\ e.book_id = r.book_id

\* C3: no two bookshelf entries share a (user, book) pair, and an
\* add_book_to_bookshelf for a pair that has an entry creates nothing: with a
\* resolved caller and a status of the enumeration its answer is the conflict.
C3_OneEntryPerPair ==
    /\ []OnePerPair
    /\ [][(req'.op = "add_book_to_bookshelf" /\ HasEntry(req'))
          => /\ shelf' = shelf
             /\ (get_current_user(req'.token) /\ req'.status \in READING_STATUSES)
                   => /\ ConflictError(resp')
                      /\ resp'.detail = "Book already in user's bookshelf."]_vars

\* a second add for the same pair was refused
C3_Witness ==
    /\ req.op = "add_book_to_bookshelf"
    /\ resp.detail = "Book already in user's bookshelf."
    /\ HasEntry(req)

\* the items of the entries of sh that belong to the user named name
ItemsOf(sh, name) ==
    {ShelfItem(e) : e \in {x \in sh : \E u \in users : u.username = name /\ x.user_id = u.id}}

\* C4 as claimed: a successful add_book_to_bookshelf returns every entry the
\* user has after the call.
C4_FullBookshelf ==
    [][(req'.op = "add_book_to_bookshelf" /\ resp'.status = 200)
        => resp'.body.bookshelf = ItemsOf(shelf', req'.username)]_vars

\* C4 amended: a successful add_book_to_bookshelf stores one new entry, for the
\* user, book and status of the request, and returns a bookshelf that holds
\* that entry alone.
C4_NewEntryOnly ==
    [][(req'.op = "add_book_to_bookshelf" /\ resp'.status = 200)
        => /\ shelf \subseteq shelf'
           /\ Cardinality(shelf' \ shelf) = 1
           /\ resp'.body.username = req'.username
           /\ resp'.body.bookshelf = ItemsOf(shelf' \ shelf, req'.username)
           /\ \A i \in resp'.body.bookshelf :
                 i.book_id = req'.book_id /\ i.status = req'.status]_vars

\* an entry was added to a bookshelf that held another entry
C4_Witness ==
    /\ req.op = "add_book_to_bookshelf"
    /\ resp.status = 200
    /\ Cardinality(ItemsOf(shelf, req.username)) >= 2
    /\ Cardinality(resp.body.bookshelf) = 1

\* the lists of the user named name
ListsOfName(ls, name) ==
    {l \in ls : \E u \in users : u.username = name /\ l.user_id = u.id}

AtMostThreeLists ==
    \A id \in {l.user_id : l \in lists} :
        Cardinality({l \in lists : l.user_id = id}) <= 3

\* C5: no user ever owns more than 3 reading lists, and create_reading_list for
\* a user who owns 3 creates nothing, whether the name is new or in use: with a
\* resolved caller its answer is the conflict of the cap.
C5_ListCap ==
    /\ []AtMostThreeLists
    /\ [][(/\ req'.op = "create_reading_list"
           /\ Cardinality(ListsOfName(lists, req'.username)) = 3)
          => /\ lists' = lists
             /\ get_current_user(req'.token)
                   => /\ ConflictError(resp')
                      /\ resp'.detail = "User can have 3 reading lists simultaneously."]_vars

\* a fourth list with a name not in use was refused
C5_Witness ==
    /\ req.op = "create_reading_list"
    /\ resp.detail = "User can have 3 reading lists simultaneously."
    /\ Cardinality(ListsOfName(lists, req.username)) = 3
    /\ \A l \in ListsOfName(lists, req.username) : l.list_name # req.name

UniqueListNames ==
    \A l1 \in lists, l2 \in lists :
        (l1.user_id = l2.user_id /\ l1.list_name = l2.list_name) => l1 = l2

\* the user of the request owns a list with the name of the request
NameInUse(r) == \E l \in ListsOfName(lists, r.username) : l.list_name = r.name

\* C6: no user owns two reading lists with one name, create_reading_list with a
\* name its user already uses is a conflict that creates nothing, and a name in
\* use by another user alone does not stop the creation.
C6_UniqueNames ==
    /\ []UniqueListNames
    /\ [][req'.op = "create_reading_list"
          => /\ NameInUse(req')
                  => /\ lists' = lists
                     /\ get_current_user(req'.token) => ConflictError(resp')
             /\ (/\ get_current_user(req'.token)
                 /\ \E u \in users : u.username = req'.username
                 /\ ~NameInUse(req')
                 /\ Cardinality(ListsOfName(lists, req'.username)) < 3)
                  => /\ resp'.status = 200
                     /\ \E l \in lists' \ lists : l.list_name = req'.name]_vars

\* a list was created under a name that another user uses too
C6_Witness ==
    /\ req.op = "create_reading_list"
    /\ resp.status = 200
    /\ \E l1 \in lists, l2 \in lists :
          /\ l1.list_name = req.name
          /\ l2.list_name = req.name
          /\ l1.user_id # l2.user_id

NonBlankBook(c) == \A i \in 1..Len(BookFields) : ~Blank(c[BookFields[i]])

SharesIsbnOrTitle(c) == \E b \in books : b.isbn = c.isbn \/ b.title = c.title

\* C7: create_book stores nothing when a stored book has the isbn or the title
\* of the candidate, and with a resolved caller and no blank field that is the
\* conflict; a candidate with no blank field that shares neither is stored.
C7_CreateBook ==
    [][(req'.op = "create_book" /\ get_current_user(req'.token))
        => /\ SharesIsbnOrTitle(req'.book)
                => /\ books' = books
                   /\ resp'.status = 400
                   /\ NonBlankBook(req'.book) => ConflictError(resp')
           /\ (NonBlankBook(req'.book) /\ ~SharesIsbnOrTitle(req'.book))
                => /\ resp'.status = 200
                   /\ \E b \in books' \ books :
                         /\ b.isbn = req'.book.isbn
                         /\ b.title = req'.book.title
                         /\ books' = books \cup {b}
                         /\ resp'.body = b]_vars

\* a book with a new isbn and the title of a stored book was refused
C7_Witness ==
    /\ req.op = "create_book"
    /\ ConflictError(resp)
    /\ \E b \in books : b.title = req.book.title
    /\ \A b \in books : b.isbn # req.book.isbn

GetStep == req'.op = "cached_search_openlibrary"

\* C8: a lookup whose exact triple is resident with a result returns that
\* result and does not call search_openlibrary; a lookup whose exact triple is
\* not resident calls it, whatever other triples are resident, and a result
\* that the call returns is what the cache then holds for the triple.
C8_Memoized ==
    [][GetStep
        => /\ \A i \in 1..Len(cache) :
                 (cache[i].key = req'.key /\ cache[i].out.kind = "ok")
                   => (~resp'.called /\ resp'.out = cache[i].out)
           /\ (\A i \in 1..Len(cache) : cache[i].key # req'.key)
                 => /\ resp'.called
                    /\ resp'.out.kind = "ok"
                         => \E j \in 1..Len(cache') :
                               cache'[j] = [key |-> req'.key, out |-> resp'.out]]_vars

\* a repeated lookup was answered from the cache while the triples that differ
\* from it in the query term alone and in the author alone were resident
C8_Witness ==
    /\ req.op = "cached_search_openlibrary"
    /\ req.key = Key(1)
    /\ ~resp.called
    /\ {Key(2), Key(5)} \subseteq Resident

\* C9: the cache never holds more than 64 entries; the key of a lookup that
\* ends with a result is the most recently used entry after it, a hit leaves
\* the other entries in their order, a miss with 64 entries resident drops the
\* least recently used entry and no other, and the key of one lookup, while it
\* is resident, is still resident after the next lookup.
C9_LruBound ==
    /\ [](Len(cache) <= 64)
    /\ [][GetStep
          => /\ resp'.out.kind = "ok" => cache'[Len(cache')].key = req'.key
             /\ ~resp'.called
                  => /\ req'.key \in Resident
                     /\ SubSeq(cache', 1, Len(cache') - 1)
                          = Without(cache, IndexOf(req'.key))
             /\ (resp'.called /\ Len(cache) = 64)
                  => /\ req'.key \notin Resident
                     /\ cache' \in {Tail(cache) \o <<[key |-> req'.key, out |-> resp'.out]>>,
                                    Tail(cache)}
                     /\ resp'.out.kind = "ok" => Len(cache') = 64
             /\ (resp'.called /\ Len(cache) < 64)
                  => cache' \in {cache \o <<[key |-> req'.key, out |-> resp'.out]>>,
                                 cache}
             /\ (req.op = "cached_search_openlibrary" /\ req.key \in Resident)
                  => req.key \in Resident']_vars

\* the 65th key was looked up with 64 entries resident: the first key, used
\* again in between, stayed and the second key was dropped
C9_Witness ==
    /\ req.op = "cached_search_openlibrary"
    /\ req.key = Key(maxsize + 1)
    /\ resp.called
    /\ Len(cache) = maxsize
    /\ Key(1) \in Resident
    /\ Key(2) \notin Resident

\* C10: after a clear the cache holds no entry, cache_info reports currsize 0,
\* and the next lookup, of whatever key the clear dropped, calls
\* search_openlibrary.
C10_Clear ==
    [][/\ req'.op = "clear_openlibrary_cache"
            => (Len(cache') = 0 /\ cache_info'.currsize = 0)
       /\ (req.op = "clear_openlibrary_cache" /\ req'.op = "get_openlibrary_cache_info")
            => resp'.body.currsize = 0
       /\ (req.op = "clear_openlibrary_cache" /\ GetStep)
            => resp'.called]_vars

\* the 64th key, resident before a clear, was looked up first after the clear
\* and fetched again
C10_Witness ==
    /\ req.op = "cached_search_openlibrary"
    /\ req.key = Key(maxsize)
    /\ resp.called
    /\ Len(cache) = 1
    /\ stats = [hits |-> 0, misses |-> 1]

\* C11: but for a clear no request makes the hits or the misses decrease; a
\* lookup adds one to the hits and nothing to the misses when its key was
\* resident, and one to the misses and nothing to the hits when it was not;
\* cache_info always reports maxsize 64, and get_openlibrary_cache_info answers
\* with the two counters and, as currsize, the number of keys resident.
C11_InfoCounters ==
    /\ [](cache_info.maxsize = 64 /\ cache_info.currsize = Cardinality(Resident))
    /\ [][/\ req'.op # "clear_openlibrary_cache"
               => (stats'.hits >= stats.hits /\ stats'.misses >= stats.misses)
          /\ (GetStep /\ req'.key \in Resident)
               => stats' = [hits |-> stats.hits + 1, misses |-> stats.misses]
          /\ (GetStep /\ req'.key \notin Resident)
               => stats' = [hits |-> stats.hits, misses |-> stats.misses + 1]
          /\ req'.op = "get_openlibrary_cache_info"
               => resp'.body = [hits |-> stats.hits, misses |-> stats.misses,
                               maxsize |-> 64, currsize |-> Cardinality(Resident)]]_vars

\* the counters were reported after a hit and after more misses than the cache
\* holds entries
C11_Witness ==
    /\ req.op = "get_openlibrary_cache_info"
    /\ resp.body = [hits |-> 1, misses |-> 65, maxsize |-> 64, currsize |-> 64]

\* C12 as claimed: no two tasks of search_openlibrary that run at one time
\* have the same key.
C12_OneCallInFlight ==
    \A s \in flight : \A t \in flight : s.key = t.key => s = t

\* C12, what holds: a call whose key has the entry of a running task resident
\* creates no task, is counted as a hit and waits for that task with the callers
\* before it, and the task, when it finishes, gives its one outcome to them all.
C12_SharedWhileResident ==
    [][/\ (GetStep /\ req'.key \in Resident
             /\ cache[IndexOf(req'.key)].out.kind = "pending")
            => /\ ~resp'.called
               /\ {t.id : t \in flight'} = {t.id : t \in flight}
               /\ \E t \in flight :
                     /\ Pending(t.id) = resp'.out
                     /\ [t EXCEPT !.waiters = @ + 1] \in flight'
       /\ req'.op = "search_openlibrary"
            => \E t \in flight : /\ t.id = req'.id
                                 /\ flight' = flight \ {t}
                                 /\ resp'.waiters = t.waiters
                                 /\ resp'.out = search_openlibrary(req'.remote)]_vars

\* two tasks of search_openlibrary run for the first key, the entry of the
\* older one dropped by a clear
C12_Witness ==
    /\ Cardinality({t \in flight : t.key = Key(1)}) = 2
    /\ req.op = "cached_search_openlibrary"
    /\ stats = [hits |-> 0, misses |-> 1]

\* every task that runs can finish
CanFinish ==
    \A t \in flight :
       ENABLED (\E remote \in AllRemotes, keeps \in BOOLEAN :
                   search_openlibrary_done(t, remote, keeps))

DoneStep == req'.op = "search_openlibrary"

ClearStep == req'.op = "clear_openlibrary_cache"

\* C13 as claimed: whatever calls wait for their tasks, a clear answers with
\* success and leaves the entry table empty; every task that runs can finish
\* and gives the callers that wait for it a result or an HTTPException; the
\* cache holds between 0 and 64 entries, a call is counted once, as a hit or as
\* a miss, and the end of its task is not counted again.
C13_ClearWhileInFlight ==
    /\ [](Len(cache) \in 0..64 /\ CanFinish)
    /\ [][/\ ClearStep => (Ok(resp') /\ cache' = <<>>)
          /\ DoneStep => (resp'.out.kind \in {"ok", "error"} /\ stats' = stats)
          /\ GetStep => stats'.hits + stats'.misses = stats.hits + stats.misses + 1]_vars

\* C13, what holds: a clear empties the entry table, resets the counters and
\* leaves the tasks that run as they are; every task that runs can finish and
\* gives the callers that wait for it a result or an HTTPException; the cache
\* holds between 0 and 64 entries, a call is counted once, as a hit or as a
\* miss, and the end of its task is not counted again.
C13_TasksOutliveClear ==
    /\ [](Len(cache) \in 0..64 /\ CanFinish)
    /\ [][/\ ClearStep => (cache' = <<>> /\ flight' = flight
                             /\ stats' = [hits |-> 0, misses |-> 0])
          /\ DoneStep => (resp'.out.kind \in {"ok", "error"} /\ stats' = stats)
          /\ GetStep => stats'.hits + stats'.misses = stats.hits + stats.misses + 1]_vars

\* a task for which two callers waited finished after a clear had dropped its
\* entry and reset the counters
C13_Witness ==
    /\ req.op = "search_openlibrary"
    /\ resp.waiters = 2
    /\ resp.out.kind = "ok"
    /\ stats = [hits |-> 0, misses |-> 0]
    /\ cache = <<>>

\* C14 as claimed: the task of search_openlibrary ends with status 503 when
\* Open Library answers 429, with 502 when it answers another status that is not
\* 200, with 502 when the request fails to connect, and with 500 for no failure
\* but one of another kind.
C14_FailureClasses ==
    [][DoneStep
        => /\ req'.remote = Answer(429, 0) => resp'.out.val = 503
           /\ req'.remote = Answer(500, 0) => resp'.out.val = 502
           /\ req'.remote = RequestError => resp'.out.val = 502
           /\ req'.remote = OtherError => resp'.out.val = 500
           /\ (resp'.out.kind = "error" /\ resp'.out.val = 500)
                => req'.remote = OtherError]_vars

\* C14, what holds: the task ends with the payload when Open Library answers
\* 200, with status 502 when the request fails to connect, and with status 500
\* for every other failure, an answer of 429 or of another status included.
C14_ConnectionFailuresOnly ==
    [][DoneStep
        => /\ req'.remote = Answer(200, 1) => resp'.out = Found(1)
           /\ req'.remote = RequestError
                => (resp'.out.kind = "error" /\ resp'.out.val = 502)
           /\ req'.remote \in {Answer(429, 0), Answer(500, 0), OtherError}
                => (resp'.out.kind = "error" /\ resp'.out.val = 500)]_vars

\* Open Library answered 429 and the callers got status 500
C14_Witness ==
    /\ req.op = "search_openlibrary"
    /\ req.remote = Answer(429, 0)
    /\ resp.out = Raised(500, "Unexpected error")

\* the lookup before this one was of the same key and ended with an exception
RepeatedAfterError ==
    /\ GetStep
    /\ req.op = "cached_search_openlibrary"
    /\ req.key = req'.key
    /\ resp.out.kind = "error"

C15_WitnessKept ==
    /\ req.op = "cached_search_openlibrary"
    /\ ~resp.called
    /\ resp.out.kind = "error"

MutationOps ==
    {"register_user", "update_user", "delete_user", "create_book", "delete_book",
     "add_book_to_bookshelf", "update_bookshelf_status", "create_reading_list",
     "delete_reading_list"}

\* the handlers whose commit stands in a try block with `except Exception`
WrappedOps == {"delete_user", "create_book", "delete_book", "delete_reading_list"}

\* the store failed in the step
StoreFailed == req'.op \in MutationOps /\ resp'.status = 500

\* HTTPException(status_code=500, detail=f"Database error: {str(e)}")
InternalError(r) == r.status = 500 /\ r.detail = "Database error"

\* C16 as claimed: whichever handler writes the store, when the store fails the
\* store is left as it was and the answer is the HTTPException with status 500
\* that carries the message of the failure.
C16_StoreFailure ==
    [][StoreFailed => (UNCHANGED storeVars /\ InternalError(resp'))]_vars

\* C16, what holds: when the store fails the store is left as it was; the answer
\* is the HTTPException with status 500 that carries the message of the failure
\* for delete_user, create_book, delete_book and delete_reading_list, and for
\* the other five handlers the exception of the store is not caught.
C16_WrappedHandlersOnly ==
    [][StoreFailed
        => /\ UNCHANGED storeVars
           /\ req'.op \in WrappedOps => InternalError(resp')
           /\ req'.op \notin WrappedOps => resp' = Unhandled(req'.op)]_vars

\* the commit of update_user failed for a stored user and candidate values that
\* no other user had, and nothing caught the exception
C16_Witness ==
    /\ req.op = "update_user"
    /\ resp = Unhandled("update_user")
    /\ \E u \in users : u.id = req.id /\ u.username # req.user.username

\* the step is the commit of a handler that creates a row
CommitStep == req'.op = "db.commit"

\* the session that commits in the step
Committing == CHOOSE t \in txns : t.sid = req'.sid

\* a stored row already has the value that the spec calls unique for the row
\* of the session: the username or the email of a user, the ISBN or the title
\* of a book, the user and book of a bookshelf entry, the owner and name of a
\* reading list
KeyTaken(t) ==
    CASE t.op = "register_user"
           -> \E u \in users : u.username = t.row.username \/ u.email = t.row.email
      [] t.op = "create_book"
           -> \E b \in books : b.isbn = t.row.isbn \/ b.title = t.row.title
      [] t.op = "add_book_to_bookshelf"
           -> \E e \in shelf : e.user_id = t.row.user_id /\ e.book_id = t.row.book_id
      [] t.op = "create_reading_list"
           -> \E l \in lists : /\ l.user_id = t.row.user_id
                               /\ l.list_name = t.row.list_name

UniqueUsers ==
    \A u1 \in users, u2 \in users :
        (u1.username = u2.username \/ u1.email = u2.email) => u1 = u2

UniqueIsbns == \A b1 \in books, b2 \in books : b1.isbn = b2.isbn => b1 = b2

UniqueTitles == \A b1 \in books, b2 \in books : b1.title = b2.title => b1 = b2

\* C17 as claimed: when requests whose checks all passed race to create rows
\* with the same unique value, the first commit succeeds and stores its row,
\* every later one answers with a conflict error and stores nothing, and the
\* store never holds two users with one username or email, two books with one
\* ISBN or title, two bookshelf entries for one user and book, or two reading
\* lists of one user with one name.
C17_RaceOneWinner ==
    /\ [](UniqueUsers /\ UniqueIsbns /\ UniqueTitles /\ OnePerPair
          /\ UniqueListNames)
    /\ [][CommitStep
           => IF KeyTaken(Committing)
              THEN ConflictError(resp') /\ UNCHANGED <<users, books, shelf, lists>>
              ELSE Ok(resp')]_vars

\* C17, what holds: the store arbitrates only the three unique columns.  A
\* commit whose username, email or ISBN is already stored stores nothing and
\* answers with status 500, never with a conflict error; every other commit
\* succeeds and stores its row, a duplicate title, bookshelf entry or list name
\* included; no two users share a username or an email and no two books an ISBN.
C17_ConstraintsArbitrate ==
    /\ [](UniqueUsers /\ UniqueIsbns)
    /\ [][CommitStep
           => IF IntegrityError(Committing)
              THEN /\ resp'.status = 500
                   /\ ~ConflictError(resp')
                   /\ UNCHANGED <<users, books, shelf, lists>>
              ELSE /\ Ok(resp')
                   /\ Cardinality(users) + Cardinality(books) + Cardinality(shelf)
                        + Cardinality(lists) + 1
                      = Cardinality(users') + Cardinality(books')
                        + Cardinality(shelf') + Cardinality(lists')]_vars

\* two requests to put the same book on the same bookshelf both passed the
\* check, and the second commit succeeded as well: the bookshelf holds the
\* book twice
C17_Witness ==
    /\ req.op = "db.commit"
    /\ req.handler = "add_book_to_bookshelf"
    /\ Ok(resp)
    /\ ~OnePerPair

\* two registrations of one username both passed the check, and the second
\* commit was refused by the unique constraint with nothing to catch it
C17_WitnessRefused ==
    /\ req.op = "db.commit"
    /\ req.handler = "register_user"
    /\ resp = Unhandled("register_user")
    /\ Cardinality(users) = 1

\* the handlers that the spec lets only a resolved caller run
CallerOps == (MutationOps \ {"register_user"}) \cup {"clear_openlibrary_cache"}

\* the request of the step carries no token that resolves to a stored user
NoCaller == ~get_current_user(req'.token)

\* C18 as claimed: a request without a valid token to a handler that writes the
\* store, other than register_user, or to clear_openlibrary_cache is answered
\* 401 and changes neither the store nor the cache.
C18_CallerRequired ==
    [][(req'.op \in CallerOps /\ NoCaller)
        => /\ resp' = Unauthenticated(req'.op)
           /\ UNCHANGED <<storeVars, cacheVars>>]_vars

\* C18, what holds: a request without a valid token to a handler that writes
\* the store, other than register_user, is answered 401 and changes neither the
\* store nor the cache; clear_openlibrary_cache empties the cache and resets
\* its counters for every request, with a valid token or without, and never
\* answers 401.
C18_CallerRequiredByStoreHandlers ==
    [][/\ (req'.op \in CallerOps \ {"clear_openlibrary_cache"} /\ NoCaller)
          => /\ resp' = Unauthenticated(req'.op)
             /\ UNCHANGED <<storeVars, cacheVars>>
       /\ req'.op = "clear_openlibrary_cache"
          => /\ resp'.status # 401
             /\ cache' = <<>>
             /\ stats' = [hits |-> 0, misses |-> 0]
             /\ UNCHANGED storeVars]_vars

\* a request with a token that no user holds cleared a cache that held entries,
\* while ann, registered, could have sent her own token
C18_Witness ==
    /\ req.op = "clear_openlibrary_cache"
    /\ req.token = BadToken
    /\ req.resident # {}
    /\ cache = <<>>
    /\ get_current_user(ann)
    /\ resp.status = 200

\* a request without a valid token to create_book was answered 401
C18_WitnessRefused ==
    /\ req.op = "create_book"
    /\ req.token = BadToken
    /\ resp = Unauthenticated("create_book")
    /\ books = {}

\* the step served update_user for a caller that was resolved
UpdateStep == req'.op = "update_user" /\ get_current_user(req'.token)

\* another user than the one updated has the candidate's username, which the
\* updated user does not have
UsernameConflict(user, c) ==
    /\ c.username # user.username
    /\ \E o \in users : o.id # user.id /\ o.username = c.username

EmailConflict(user, c) ==
    /\ c.email # user.email
    /\ \E o \in users : o.id # user.id /\ o.email = c.email

\* C19: update_user answers 404 and changes nothing when no user has the id;
\* answers 400 with a conflict message and changes nothing when the candidate's
\* username differs from the user's and another user has it, or the same for
\* the email; otherwise, a candidate that keeps the user's own username or
\* email included, it succeeds: the user has the candidate's username and
\* email, its updated_at is the time of the request and not before what it was,
\* its id, password hash and created_at are as before, and no other user
\* changes.
C19_UpdateUser ==
    [][UpdateStep
        => IF UserById(req'.id) = {}
           THEN resp'.status = 404 /\ UNCHANGED storeVars
           ELSE LET user == First(UserById(req'.id))
                    c == req'.user
                IN IF UsernameConflict(user, c) \/ EmailConflict(user, c)
                   THEN ConflictError(resp') /\ UNCHANGED storeVars
                   ELSE /\ Ok(resp')
                        /\ \E u \in users' :
                             /\ u.id = user.id
                             /\ u.username = c.username
                             /\ u.email = c.email
                             /\ u.updated_at = now
                             /\ u.updated_at >= user.updated_at
                             /\ u.created_at = user.created_at
                             /\ u.hashed_password = user.hashed_password
                             /\ users' = (users \ {user}) \cup {u}
                             /\ resp'.body = u
                        /\ UNCHANGED <<books, shelf, lists>>]_vars

\* some time after registering, ann was given another email and her own
\* username again, which did not conflict: her updated_at is later than her
\* created_at
C19_Witness ==
    /\ req.op = "update_user"
    /\ Ok(resp)
    /\ req.user = [username |-> ann, email |-> bobMail]
    /\ \E u \in users :
         /\ u.id = req.id
         /\ u.username = ann
         /\ u.email = bobMail
         /\ u.updated_at > u.created_at

\* a candidate that takes the email of another user was refused
C19_WitnessConflict ==
    /\ req.op = "update_user"
    /\ resp = HTTPException("update_user", 400, "Email already exists.")
    /\ \E u \in users : u.id = req.id /\ u.username = req.user.username

\* the step served get_user or delete_user for a caller that was resolved
SelectStep == req'.op \in {"get_user", "delete_user"} /\ get_current_user(req'.token)

\* the selector is given: it is not absent, empty or whitespace
Given(s) == ~Blank(s)

\* the users that the selectors of the spec pick: username and email when both
\* are given, the one given otherwise
Selected(username, email) ==
    {u \in users : /\ Given(username) => u.username = username
                   /\ Given(email) => u.email = email}

\* the selector is not empty and is whitespace
WhitespaceOnly(s) == Blank(s) /\ Truthy(s)

\* what get_user and delete_user answer for the users that the selectors pick
AnswersFor(picked) ==
    IF picked = {}
    THEN resp'.status = 404 /\ UNCHANGED storeVars
    ELSE /\ resp'.status \notin {400, 404}
         /\ Ok(resp') => resp'.body \in picked

\* C20 as claimed: get_user and delete_user answer 400 exactly when both
\* selectors are blank; otherwise they look the user up by the selectors that
\* are not blank, both of them when both are given, answer 404 when no user
\* matches, and answer with a matching user otherwise.
C20_Selectors ==
    [][SelectStep
        => IF Blank(req'.username) /\ Blank(req'.email)
           THEN resp'.status = 400 /\ UNCHANGED storeVars
           ELSE AnswersFor(Selected(req'.username, req'.email))]_vars

\* C20, what holds: get_user and delete_user answer 400 exactly when both
\* selectors are blank; when neither selector is whitespace they look the user
\* up by the selectors that are not blank; when one selector is whitespace and
\* the other is not blank they match the whitespace against the stored column
\* as well, and answer 404 whichever users the other selector matches.
C20_WhitespaceIsMatched ==
    [][SelectStep
        => IF Blank(req'.username) /\ Blank(req'.email)
           THEN resp'.status = 400 /\ UNCHANGED storeVars
           ELSE IF WhitespaceOnly(req'.username) \/ WhitespaceOnly(req'.email)
           THEN resp'.status = 404 /\ UNCHANGED storeVars
           ELSE AnswersFor(Selected(req'.username, req'.email))]_vars

\* get_user with a whitespace username and the email of ann, who is stored,
\* answered that there is no such user
C20_Witness ==
    /\ req.op = "get_user"
    /\ req.username = spaces
    /\ req.email = annMail
    /\ resp = HTTPException("get_user", 404, "User not found.")
    /\ UserByEmail(annMail) # {}

\* delete_user with no username and the email of bob deleted bob
C20_WitnessEmailOnly ==
    /\ req.op = "delete_user"
    /\ req.username = None
    /\ req.email = bobMail
    /\ Ok(resp)
    /\ resp.body.username = bob
    /\ UserByEmail(bobMail) = {}

\* the step served update_bookshelf_status for a caller that was resolved
UpdateStatusStep ==
    req'.op = "update_bookshelf_status" /\ get_current_user(req'.token)

\* the entries of the request's user and book
RequestedEntries ==
    {e \in shelf : /\ e.book_id = req'.book_id
                   /\ \E u \in users : u.username = req'.username /\ u.id = e.user_id}

\* what update_bookshelf_status does for a username that may name a user: 404
\* and no change without the user or the entry, then 400 and no change for a
\* status outside the enumeration, and otherwise the status of the one entry
\* changes, nothing else does, and the response lists every entry of the user
\* as stored after the change
StatusUpdated ==
    IF RequestedEntries = {}
    THEN resp'.status = 404 /\ UNCHANGED storeVars
    ELSE IF req'.status \notin {to_read, reading, read, abandoned}
    THEN resp'.status = 400 /\ UNCHANGED storeVars
    ELSE \E e \in RequestedEntries :
           /\ shelf' = (shelf \ {e}) \cup {[e EXCEPT !.status = req'.status]}
           /\ Cardinality(shelf') = Cardinality(shelf)
           /\ UNCHANGED <<users, books, lists>>
           /\ Ok(resp')
           /\ resp'.body.username = req'.username
           /\ resp'.body.bookshelf
                = {[id |-> x.id, book_id |-> x.book_id,
                    title |-> First(BookById(x.book_id)).title,
                    author |-> First(BookById(x.book_id)).author,
                    status |-> x.status] : x \in {y \in shelf' : y.user_id = e.user_id}}
           /\ \E i \in resp'.body.bookshelf :
                i.book_id = req'.book_id /\ i.status = req'.status

\* C21 as claimed: update_bookshelf_status answers 404 whenever no stored user
\* has the username or the user has no entry for the book, 400 when the status
\* is outside the enumeration, and otherwise changes the status of the one
\* entry and nothing else and returns every entry of the user.
C21_UpdateStatus == [][UpdateStatusStep => StatusUpdated]_vars

\* C21, what holds: update_bookshelf_status answers 400 and changes nothing for
\* a blank username, before it looks for the user; for every other username it
\* answers 404 without the user or the entry, 400 for a status outside the
\* enumeration, and otherwise changes the status of the one entry and nothing
\* else and returns every entry of the user.
C21_BlankUsernameRefused ==
    [][UpdateStatusStep
        => IF Blank(req'.username)
           THEN resp'.status = 400 /\ UNCHANGED storeVars
           ELSE StatusUpdated]_vars

\* ann had two books on her bookshelf and one of them was set to read: the
\* response lists both, one reading and one read
C21_Witness ==
    /\ req.op = "update_bookshelf_status"
    /\ Ok(resp)
    /\ Cardinality(resp.body.bookshelf) = 2
    /\ \E i \in resp.body.bookshelf : i.status = read /\ i.book_id = req.book_id
    /\ \E i \in resp.body.bookshelf : i.status = reading

\* a request with an empty username was answered 400, not 404
C21_WitnessBlank ==
    /\ req.op = "update_bookshelf_status"
    /\ req.username = empty
    /\ get_current_user(req.token)
    /\ resp.status = 400

\* the step served delete_reading_list for a caller that was resolved
DeleteListStep == req'.op = "delete_reading_list" /\ get_current_user(req'.token)

\* the lists of the request's user that have the request's name
RequestedLists ==
    {l \in lists : /\ l.list_name = req'.name
                   /\ \E u \in users : u.username = req'.username /\ u.id = l.user_id}

\* C22: delete_reading_list answers 400 and changes nothing for a blank
\* username or name; 404 and no change when no user has the username or the
\* user has no list of the name; otherwise it removes that one list and its
\* rows of reading_list_books, leaves every other list, every book, user and
\* bookshelf entry as stored, and returns the id, the username, the name and
\* the books the list had before the step.
C22_DeleteReadingList ==
    [][DeleteListStep
        => IF Blank(req'.username) \/ Blank(req'.name)
           THEN resp'.status = 400 /\ UNCHANGED storeVars
           ELSE IF RequestedLists = {}
           THEN resp'.status = 404 /\ UNCHANGED storeVars
           ELSE \E l \in RequestedLists :
                  /\ lists' = lists \ {l}
                  /\ members' = {m \in members : m.reading_list_id # l.id}
                  /\ UNCHANGED <<users, books, shelf>>
                  /\ Ok(resp')
                  /\ resp'.body.id = l.id
                  /\ resp'.body.username = req'.username
                  /\ resp'.body.reading_list_name = l.list_name
                  /\ {i.book_id : i \in resp'.body.books}
                       = {m.book_id : m \in {x \in members : x.reading_list_id = l.id}}
                  /\ \A i \in resp'.body.books :
                       \E b \in books :
                         /\ b.id = i.book_id
                         /\ i = [id |-> b.id, book_id |-> b.id, title |-> b.title,
                                 author |-> b.author]]_vars

\* ann's list of two books was deleted: the response names both books, both
\* are still in the catalog, and bob's list of the same name still has its book
C22_Witness ==
    /\ req.op = "delete_reading_list"
    /\ req.username = ann
    /\ Ok(resp)
    /\ Cardinality(resp.body.books) = 2
    /\ Cardinality(books) = 2
    /\ \A l \in lists : l.user_id # 1
    /\ \E l \in lists, m \in members : l.user_id = 2 /\ m.reading_list_id = l.id
    /\ \A m \in members : m.reading_list_id # resp.body.id

\* the step served delete_book for a caller that was resolved
DeleteBookStep == req'.op = "delete_book" /\ get_current_user(req'.token)

\* the book of the request is removed and returned as it was stored, and no
\* book has its id afterwards
BookRemoved ==
    \E b \in books :
      /\ b.id = req'.id
      /\ Ok(resp')
      /\ resp'.body = b
      /\ books' = books \ {b}
      /\ \A x \in books' : x.id # req'.id
      /\ UNCHANGED users

\* C23 as claimed: delete_book answers 404 and changes nothing when no book has
\* the id; for every stored book, on a bookshelf or in a reading list or not,
\* it removes the book and returns it as it was stored, and no book has the id
\* afterwards.
C23_DeleteBook ==
    [][DeleteBookStep
        => IF \A b \in books : b.id # req'.id
           THEN resp'.status = 404 /\ UNCHANGED storeVars
           ELSE BookRemoved]_vars

\* C23, what holds: delete_book answers 404 and changes nothing when no book
\* has the id; it removes and returns a stored book that is on no bookshelf, in
\* a reading list or not; for a book that is on a bookshelf it answers 500 and
\* changes nothing, the book included.
C23_ShelvedBookStays ==
    [][DeleteBookStep
        => IF \A b \in books : b.id # req'.id
           THEN resp'.status = 404 /\ UNCHANGED storeVars
           ELSE IF \E e \in shelf : e.book_id = req'.id
           THEN resp'.status = 500 /\ UNCHANGED storeVars
           ELSE BookRemoved /\ UNCHANGED <<shelf, lists>>]_vars

\* delete_book of a book that is on ann's bookshelf answered 500 and the book
\* is still stored
C23_Witness ==
    /\ req.op = "delete_book"
    /\ resp = HTTPException("delete_book", 500, "Database error")
    /\ \E b \in books : b.id = req.id
    /\ \E e \in shelf : e.book_id = req.id

\* a book that was in a reading list and on no bookshelf was deleted
C23_WitnessInList ==
    /\ req.op = "delete_book"
    /\ Ok(resp)
    /\ req.id = 2
    /\ \A b \in books : b.id # 2
    /\ lists = StoredLists
    /\ members = {[reading_list_id |-> 1, book_id |-> 1]}

\* every bookshelf entry has its user and its book, every reading list its
\* user, and every row of reading_list_books its list and its book
ReferentialIntegrity ==
    /\ \A e \in shelf : /\ \E u \in users : u.id = e.user_id
                        /\ \E b \in books : b.id = e.book_id
    /\ \A l \in lists : \E u \in users : u.id = l.user_id
    /\ \A m \in members : /\ \E l \in lists : l.id = m.reading_list_id
                          /\ \E b \in books : b.id = m.book_id

\* the step deleted a user or a book
Deleted == req'.op \in {"delete_user", "delete_book"} /\ Ok(resp')

Enumeration == {to_read, reading, read, abandoned}

\* the step served add_book_to_bookshelf for a caller that was resolved
AddStep == req'.op = "add_book_to_bookshelf" /\ get_current_user(req'.token)

\* C25: every stored bookshelf entry has one of the four statuses in every
\* reachable state; add_book_to_bookshelf answers 400 and stores nothing for a
\* blank username, a blank status or a status outside the four, and otherwise
\* 404 and stores nothing when no user has the username or no book has the id.
C25_StatusEnumeration ==
    /\ [](\A e \in shelf : e.status \in Enumeration)
    /\ [][AddStep
           => IF \/ Blank(req'.username)
                 \/ Blank(req'.status)
                 \/ req'.status \notin Enumeration
              THEN resp'.status = 400 /\ UNCHANGED storeVars
              ELSE IF \/ \A u \in users : u.username # req'.username
                      \/ \A b \in books : b.id # req'.book_id
              THEN resp'.status = 404 /\ UNCHANGED storeVars
              ELSE resp'.status \notin {404, 401}]_vars

\* with ann and the book stored and ann's bookshelf empty, a request with a
\* status outside the four was refused and the bookshelf is still empty
C25_Witness ==
    /\ req.op = "add_book_to_bookshelf"
    /\ req.status = <<"lost">>
    /\ req.username = ann
    /\ resp.status = 400
    /\ UserByUsername(ann) # {}
    /\ BookById(req.book_id) # {}
    /\ shelf = {}

\* a request for a user that is not stored was answered 404
C25_WitnessNotFound ==
    /\ req.op = "add_book_to_bookshelf"
    /\ req.username = bob
    /\ req.status = reading
    /\ resp = HTTPException("add_book_to_bookshelf", 404, "User not found.")
    /\ BookById(req.book_id) # {}

\* the step served login
LoginStep == req'.op = "login"

\* the stored users that have the username and whose stored hash is that of
\* the password
Authenticated(username, password) ==
    {u \in users : /\ u.username = username
                   /\ u.hashed_password = get_password_hash(password)}

\* C26: login never changes the store; it answers 400 with a message about
\* the blank field when the username or the password is absent, empty or
\* whitespace; 400 "Incorrect username or password" when no stored user has
\* the username with the password; and only otherwise a bearer token, which is
\* the one that resolves to the stored user of that username.
C26_Login ==
    [][LoginStep
        => /\ UNCHANGED storeVars
           /\ IF Blank(req'.username) \/ Blank(req'.password)
              THEN /\ resp'.status = 400
                   /\ resp'.detail \in {"Username cannot be empty or whitespace.",
                                        "Password cannot be empty or whitespace."}
              ELSE IF Authenticated(req'.username, req'.password) = {}
              THEN resp' = HTTPException("login", 400,
                               "Incorrect username or password")
              ELSE /\ Ok(resp')
                   /\ resp'.body.token_type = "bearer"
                   /\ resp'.body.access_token = req'.username
                   /\ get_current_user(resp'.body.access_token)]_vars

\* bob logged in with his password while ann, whose password is another, is
\* stored too
C26_Witness ==
    /\ req.op = "login"
    /\ req.username = bob
    /\ req.password = <<"q">>
    /\ Ok(resp)
    /\ resp.body.access_token = bob
    /\ Cardinality(users) = 2

\* bob was refused with ann's password
C26_WitnessRefused ==
    /\ req.op = "login"
    /\ req.username = bob
    /\ req.password = <<"p">>
    /\ resp = HTTPException("login", 400, "Incorrect username or password")
    /\ UserByUsername(bob) # {}
    /\ UserByUsername(ann) # {}

\* the step served register_user with a candidate that has no blank field
RegisterStep == req'.op = "register_user" /\ NonBlankUser(req'.user)

\* C27: under register_user, update_user and delete_user in any order no two
\* stored users have one username and no two have one email; an update_user
\* that succeeds leaves no other user with the username or the email it
\* assigned; and register_user succeeds for a username and an email that no
\* user has at the time of the request, whoever had them before.
C27_UsersStayUnique ==
    /\ [](\A u1 \in users, u2 \in users :
            (u1.username = u2.username \/ u1.email = u2.email) => u1.id = u2.id)
    /\ [](\A u1 \in users, u2 \in users : u1.id = u2.id => u1 = u2)
    /\ [][(req'.op = "update_user" /\ Ok(resp'))
           => \A o \in users' :
                o.id # req'.id
                  => /\ o.username # req'.user.username
                     /\ o.email # req'.user.email]_vars
    /\ [][(/\ RegisterStep
           /\ \A u \in users : /\ u.username # req'.user.username
                               /\ u.email # req'.user.email)
           => /\ Ok(resp')
              /\ \E u \in users' \ users :
                   /\ u.username = req'.user.username
                   /\ u.email = req'.user.email]_vars

\* the first user, who held the only token the requests carry, ann's, was
\* deleted, and the username ann was registered again for a second user
C27_Witness ==
    /\ req.op = "register_user"
    /\ Ok(resp)
    /\ users = {resp.body}
    /\ resp.body.id = 2
    /\ resp.body.username = ann

\* the handlers of users, books, bookshelves and reading lists
LifecycleOps ==
    MutationOps \cup {"login", "get_user"}

\* the step was refused for its input, for a conflict or for a missing row
Refused == req'.op \in LifecycleOps /\ resp'.status \in {400, 404}

\* C28: a request to a handler of users, books, bookshelves or reading lists
\* that is answered 400 or 404 leaves every table as it was.
C28_RefusedChangesNothing ==
    [][Refused
        => /\ UNCHANGED <<users, books, shelf, lists, members>>
           /\ UNCHANGED seq]_vars

\* update_user was refused for an email that another user has, with a username
\* that was free, and the user still has the username it had
C28_Witness ==
    /\ req.op = "update_user"
    /\ resp = HTTPException("update_user", 400, "Email already exists.")
    /\ UserByUsername(req.user.username) = {}
    /\ \E u \in users : u.id = req.id /\ u.username = bob /\ u.email = bobMail
    /\ \E u \in users : u.id # req.id /\ u.email = req.user.email

\* create_reading_list was refused for a user that has three lists
C28_WitnessCap ==
    /\ req.op = "create_reading_list"
    /\ resp.status = 400
    /\ Cardinality(lists) = 3

\* the lists that the user of the request owns
OwnedNow == {l \in lists : \E u \in users : u.username = req'.username /\ u.id = l.user_id}

\* C29: create_reading_list for a stored user who owns fewer than 3 lists at
\* the time of the request, with a name that none of them has, succeeds and
\* stores the list, however many lists were created and deleted before and
\* whether or not a deleted list had the name.
C29_CapCountsCurrentLists ==
    [][(/\ req'.op = "create_reading_list"
        /\ get_current_user(req'.token)
        /\ ~Blank(req'.username)
        /\ \E u \in users : u.username = req'.username
        /\ Cardinality(OwnedNow) < 3
        /\ \A l \in OwnedNow : l.list_name # req'.name)
        => /\ Ok(resp')
           /\ \E l \in lists' \ lists :
                /\ l.list_name = req'.name
                /\ lists' = lists \cup {l}
                /\ \E u \in users : u.username = req'.username /\ u.id = l.user_id]_vars

\* ann, who had created the lists 1, 2 and 3, deleted the first, and her fourth
\* list was accepted under the name of the deleted one: she owns three again
C29_Witness ==
    /\ req.op = "create_reading_list"
    /\ Ok(resp)
    /\ resp.body.id = 4
    /\ req.name = faves
    /\ {l.id : l \in lists} = {2, 3, 4}
    /\ \A l \in lists : l.user_id = 1

\* ann owned three lists and deleted one
C29_WitnessDeleted ==
    /\ req.op = "delete_reading_list"
    /\ Ok(resp)
    /\ seq.lists = 3
    /\ Cardinality(lists) = 2

\* the step served the book search
SearchStep == req'.op = "get_book_by_name_or_author"

\* the stored books that have the title of the request, when one is given, or
\* the author of the request, when one is given
Matching ==
    {b \in books : \/ Given(req'.title) /\ b.title = req'.title
                   \/ Given(req'.author) /\ b.author = req'.author}

\* C30: the book search never writes the store; it answers 400 and leaves the
\* cache alone when title and author are both blank; without external it
\* leaves the cache and its counters alone, answers 404 exactly when no stored
\* book has the given title or the given author, and otherwise returns exactly
\* those books; with external it makes one lookup in the cache, which counts
\* one hit or one miss, never answers 404, and when it succeeds returns exactly
\* those books as its local result.
C30_BookSearch ==
    [][SearchStep
        => /\ UNCHANGED storeVars
           /\ IF Blank(req'.title) /\ Blank(req'.author)
              THEN resp'.status = 400 /\ UNCHANGED cacheVars
              ELSE IF ~req'.external
              THEN /\ UNCHANGED cacheVars
                   /\ resp'.status = 404 <=> Matching = {}
                   /\ resp'.status # 404 => (Ok(resp') /\ resp'.body.local = Matching)
              ELSE /\ stats'.hits + stats'.misses = stats.hits + stats.misses + 1
                   /\ Len(cache') <= Len(cache) + 1
                   /\ resp'.status # 404
                   /\ Ok(resp') => resp'.body.local = Matching]_vars

\* a search with the title of one book and the author of another returned both
C30_Witness ==
    /\ req.op = "get_book_by_name_or_author"
    /\ req.title = dune
    /\ req.author = <<"A">>
    /\ ~req.external
    /\ Ok(resp)
    /\ Cardinality(resp.body.local) = 2
    /\ stats = [hits |-> 0, misses |-> 0]

\* a search with external that matched no stored book succeeded on a cache hit
C30_WitnessExternal ==
    /\ req.op = "get_book_by_name_or_author"
    /\ req.external
    /\ Ok(resp)
    /\ resp.body.local = {}
    /\ stats.hits = 1
    /\ books # {}

====
